---- MODULE Spec2Model ----
\* State-machine model of mcp-observatory: the propose/commit protocol
\* (proposal_commit, demo/server.py), the execution-token subsystem (token),
\* the policy engine and tool registry (policy), the fallback router
\* (fallback), the tool-call interceptor (core/interceptor.py), the tiered
\* execution engine (execution/policy.py) and the argument hashes.
\*
\* Conventions.  Scores are fixed-point integers in units of 1/Scale.  The
\* wall clock `now` counts ticks; a second is TicksPerSec ticks.  uuid4() is an
\* integer no other call draws (Uuid).  Python None is NoneNum for
\* optional numbers, 0 for optional ids and NoneHash for optional hashes.
EXTENDS Integers, Sequences, FiniteSets, TLC

\* ------------------------------------------------------------------ bounds
MaxClock == 3          \* the clock stops ticking here
TicksPerSec == 2       \* clock resolution: ticks per second
TtlSeconds == 1        \* CommitTokenManager(ttl_seconds=...) of the server under test
TtlTicks == 2          \* TokenIssuer(ttl_ms=...) of the interceptor, in ticks
MaxProposers == 2      \* propose tasks
MaxCommitters == 2     \* commit tasks
MaxDirectIssues == 1   \* direct CommitTokenManager.issue calls
MaxCalls == 1          \* intercept_tool_call tasks
MaxExecIssues == 1     \* direct TokenIssuer.issue calls
MaxVerifies == 3       \* direct TokenVerifier.verify calls
MaxNonceCallers == 2   \* concurrent storage.nonce_seen calls per backend
MaxGcIssues == 2       \* TokenIssuer.issue calls where eviction is looked at
MaxGcCallers == 3      \* storage.nonce_seen calls where eviction is looked at

Scale == 1000 * 1000
NoneNum == 0 - 1

\* str(uuid4()): the k-th value drawn for a purpose; distinct draws differ
Uuid(purpose, k) ==
    (CASE purpose = "proposal" -> 100
       [] purpose = "token" -> 200
       [] purpose = "nonce" -> 300
       [] purpose = "commit" -> 400
       [] purpose = "exec_token" -> 500
       [] purpose = "exec_nonce" -> 600
       [] purpose = "trace" -> 700
       [] OTHER -> 800) + k
MsPerTick == 1000 \div TicksPerSec

Milli(x) == x * (Scale \div 1000)

Min2(a, b) == IF a <= b THEN a ELSE b
Max2(a, b) == IF a >= b THEN a ELSE b
Abs(x) == IF x < 0 THEN 0 - x ELSE x

\* clamp01 / max(0.0, min(1.0, x))
clamp01(x) == Max2(0, Min2(Scale, x))

RECURSIVE SumSeq(_)
SumSeq(s) == IF s = <<>> THEN 0 ELSE Head(s) + SumSeq(Tail(s))


\* ------------------------------------------------------------------ texts
\* A text is a sequence of items: words (\w+ runs, kept lowercase in `text`
\* with `caps` telling whether the original had capitals, `num` the number
\* _NUM_RE finds in the word or NoneNum), whitespace runs and punctuation.
Word(t, n) == [kind |-> "w", text |-> t, caps |-> FALSE, num |-> n]
CapWord(t, n) == [kind |-> "w", text |-> t, caps |-> TRUE, num |-> n]
Space == [kind |-> "s", text |-> " ", caps |-> FALSE, num |-> NoneNum]
Tab == [kind |-> "s", text |-> "\t", caps |-> FALSE, num |-> NoneNum]
Punct(t) == [kind |-> "p", text |-> t, caps |-> FALSE, num |-> NoneNum]

\* "Transfer 100 to acct_123."  (the prompt demo/server.py builds for amount=100)
PromptA ==
    << CapWord("transfer", NoneNum), Space, Word("100", 100), Space,
       Word("to", NoneNum), Space, Word("acct_123", 123), Punct(".") >>
\* the same prompt up to case and whitespace: " transfer \t100 to acct_123. "
PromptA2 ==
    << Space, Word("transfer", NoneNum), Space, Tab, Word("100", 100), Space,
       Word("to", NoneNum), Space, Word("acct_123", 123), Punct("."), Space >>
\* "Transfer 101 to acct_123."
PromptB ==
    << CapWord("transfer", NoneNum), Space, Word("101", 101), Space,
       Word("to", NoneNum), Space, Word("acct_123", 123), Punct(".") >>
Prompts == {PromptA, PromptA2, PromptB}

RECURSIVE StripLeft(_)
StripLeft(s) ==
    IF s # <<>> /\ Head(s).kind = "s" THEN StripLeft(Tail(s)) ELSE s
RECURSIVE StripRight(_)
StripRight(s) ==
    IF s # <<>> /\ s[Len(s)].kind = "s"
    THEN StripRight(SubSeq(s, 1, Len(s) - 1)) ELSE s
\* str.strip()
Strip(s) == StripRight(StripLeft(s))
\* str.lower()
Lower(s) == [i \in 1..Len(s) |-> [s[i] EXCEPT !.caps = FALSE]]
\* _WS_RE.sub(" ", s): every run of whitespace becomes one space
RECURSIVE CollapseWs(_)
CollapseWs(s) ==
    IF s = <<>> THEN <<>>
    ELSE IF Head(s).kind = "s"
         THEN <<Space>> \o CollapseWs(StripLeft(Tail(s)))
         ELSE <<Head(s)>> \o CollapseWs(Tail(s))

\* hashlib.sha256(...).hexdigest(): modelled as collision free
sha256_hex(value) == <<"sha256", value>>
NoneHash == <<>>

normalize_prompt(prompt) == CollapseWs(Lower(Strip(prompt)))
prompt_hash(prompt) == sha256_hex(normalize_prompt(prompt))

\* ------------------------------------------------------------------ tool args
\* A dict is a sequence of <<key, value>> pairs in insertion order.
ToolArgs(amount, to) == << <<"amount", amount>>, <<"to", to>> >>

\* keys of the model, in sorted order
KeyRank(k) ==
    CASE k = "amount" -> 1 [] k = "destination" -> 2 [] k = "meta" -> 3
      [] k = "to" -> 4 [] k = "x" -> 5 [] k = "y" -> 6 [] OTHER -> 7
\* the bundles of the model hold a nested dict under the key meta and
\* nowhere else
IsDictKey(k) == k = "meta"
RECURSIVE InsertSorted(_, _)
InsertSorted(kv, s) ==
    IF s = <<>> THEN <<kv>>
    ELSE IF KeyRank(kv[1]) <= KeyRank(Head(s)[1]) THEN <<kv>> \o s
         ELSE <<Head(s)>> \o InsertSorted(kv, Tail(s))
\* the items of a dict in key order, nested dicts included, as json.dumps
\* writes them with sort_keys=True
RECURSIVE SortKeys(_)
SortKeys(d) ==
    IF d = <<>> THEN <<>>
    ELSE LET kv == Head(d)
             item == IF IsDictKey(kv[1]) THEN <<kv[1], SortKeys(kv[2])>> ELSE kv
         IN InsertSorted(item, SortKeys(Tail(d)))
\* variant of canonical_json that writes the items in insertion order
canonical_jsonInsertionOrder(value) == value
\* json.dumps(value, sort_keys=True, separators=(",", ":"), ...)
canonical_json(value) == SortKeys(value)
tool_args_hash(tool_args) == sha256_hex(canonical_json(tool_args))

\* ------------------------------------------------------------------ proposal scoring
\* _tokens(text): the set of lowercased words
Tokens(text) == {text[i].text : i \in {j \in 1..Len(text) : text[j].kind = "w"}}

jaccard_similarity(a, b) ==
    LET aset == Tokens(a)
        bset == Tokens(b)
    IN IF aset = {} /\ bset = {} THEN Scale
       ELSE (Cardinality(aset \cap bset) * Scale) \div Cardinality(aset \cup bset)

output_instability(a, b) == clamp01(Scale - jaccard_similarity(a, b))

\* _numbers(text): the numbers of the text, in order
RECURSIVE Numbers(_)
Numbers(text) ==
    IF text = <<>> THEN <<>>
    ELSE IF Head(text).num # NoneNum
         THEN <<Head(text).num>> \o Numbers(Tail(text))
         ELSE Numbers(Tail(text))

\* abs(x - y) / max(1e-9, abs(x))
RelDiff(x, y) ==
    IF Abs(x) >= 1 THEN (Abs(x - y) * Scale) \div Abs(x)
    ELSE Abs(x - y) * Scale * 1000000000

\* numeric_variance(a, b) with b given (the proposer always passes b)
numeric_variance(a, b) ==
    LET nums_a == Numbers(a)
        nums_b == Numbers(b)
        n == Min2(Len(nums_a), Len(nums_b))
        diffs == [i \in 1..n |-> RelDiff(nums_a[i], nums_b[i])]
    IN IF nums_a = <<>> THEN NoneNum
       ELSE IF n = 0 THEN Scale
       ELSE clamp01(SumSeq(diffs) \div n)

\* variant of prompt_drift that hashes the prompt as given
prompt_driftUnnormalized(prompt, baseline_hash) ==
    IF baseline_hash = NoneHash THEN NoneNum
    ELSE IF sha256_hex(prompt) = baseline_hash THEN 0 ELSE Scale
prompt_drift(prompt, baseline_hash) ==
    IF baseline_hash = NoneHash THEN NoneNum
    ELSE IF prompt_hash(prompt) = baseline_hash THEN 0 ELSE Scale

\* DEFAULT_WEIGHTS of proposal_commit/scoring.py, in 1/1000
ProposalWeights ==
    << [key |-> "output_instability", weight |-> 500],
       [key |-> "numeric_variance", weight |-> 300],
       [key |-> "prompt_drift", weight |-> 200] >>

composite_score(signals) ==
    LET present == {i \in 1..Len(ProposalWeights) : signals[ProposalWeights[i].key] # NoneNum}
        weighted == [i \in 1..Len(ProposalWeights) |->
                        IF i \in present
                        THEN clamp01(signals[ProposalWeights[i].key]) * ProposalWeights[i].weight
                        ELSE 0]
        weights == [i \in 1..Len(ProposalWeights) |->
                        IF i \in present THEN ProposalWeights[i].weight ELSE 0]
        weighted_sum == SumSeq(weighted)
        total_weight == SumSeq(weights)
    IN IF total_weight = 0 THEN 0
       ELSE clamp01(weighted_sum \div total_weight)

\* model_generate(prompt, temperature): only the words of the generated text
\* are kept, nothing but _tokens and _numbers is ever applied to it.
GenBase(prompt) ==
    << CapWord("plan", NoneNum), Word("transfer", NoneNum), Word("funds", NoneNum),
       Word("safely", NoneNum), Word("for", NoneNum), Word("prompt", NoneNum) >>
    \o SelectSeq(prompt, LAMBDA it : it.kind = "w")
model_generate(prompt, temperature) ==
    IF temperature <= 0
    THEN GenBase(prompt) \o << CapWord("amount", NoneNum), Word("validated", NoneNum),
                              Word("100", 100) >>
    ELSE GenBase(prompt) \o << CapWord("amount", NoneNum), Word("validated", NoneNum),
                              Word("101", 101), Word("maybe", NoneNum),
                              Word("pending", NoneNum), Word("review", NoneNum) >>

ProposalSignals(prompt, baseline_hash) ==
    LET candidate_a == model_generate(prompt, 0)
        candidate_b == model_generate(prompt, 7)
    IN [output_instability |-> output_instability(candidate_a, candidate_b),
        numeric_variance |-> numeric_variance(candidate_a, candidate_b),
        prompt_drift |-> prompt_drift(prompt, baseline_hash)]


\* ------------------------------------------------------------------ state
VARIABLES
    now,             \* wall clock, in ticks
    block_threshold, \* ProposalConfig.block_threshold
    baseline,        \* storage.baseline: tool_name -> prompt hash
    proposals,       \* storage.proposals: rows keyed by proposal_id
    commits,         \* storage.commits: rows keyed by commit_id
    nonces,          \* storage.nonces: rows keyed by nonce
    ledger,          \* DemoToolServer.ledger.transfers
    issued,          \* commit tokens handed out by CommitTokenManager.issue
    direct_issues,   \* number of direct CommitTokenManager.issue calls
    ptask,           \* propose tasks
    ctask,           \* commit tasks
    effects,         \* history: side effects executed, with the token used
    verified_ok      \* history: <<tool_name, args hash>> verify_commit accepted

commitVars ==
    << block_threshold, baseline, proposals, commits, nonces, ledger,
       issued, direct_issues, ptask, ctask, effects, verified_ok >>
\* TokenVerifier: the replay map, the secret and the replay switch
VARIABLES seen, verifier_secret, replay_protection
verifierVars == << seen, verifier_secret, replay_protection >>
\* MCPInterceptor: registry, fallback routes, the calls, the tool_fn invocations,
\* and whether an exporter is set and v2_config.shadow_for_high_risk
VARIABLES registry, routes, icall, invoked, icfg
interceptVars == << registry, routes, icall, invoked, icfg >>
\* direct clients of TokenIssuer / TokenVerifier and of PolicyEngine
VARIABLES exec_issued, exec_issues, vlog, pol
tokenVars == << exec_issued, exec_issues, vlog >>
\* PostgresStorage: the nonces table and the open nonce_seen transactions;
\* the nonce_seen calls made on an InMemoryStorage and what they returned
VARIABLES pg, ncall
storageVars == << pg, ncall >>
\* the calls made on a ToolRegistry: the first and the last profile registered
\* under each name, and the last get with the registrations it followed
VARIABLES registered, got
registryLog == << registered, got >>
\* the TieredExecutionEngine.execute call in progress
VARIABLES engine
\* the two bundles hashed, with their hashes
VARIABLES hashed
\* the intercept_model_call call in progress
VARIABLES mcall
\* the last composite score computed on its own, with what it was computed from
VARIABLES scored
libVars == << registryLog, engine, hashed, mcall, scored >>
\* what the propose/commit operations, the interceptor and the token clients leave alone
outsideCommit == << verifierVars, interceptVars, tokenVars, pol, storageVars, libVars >>
outsideIntercept == << now, commitVars, tokenVars, pol, storageVars, libVars >>
outsideToken == << now, commitVars, interceptVars, pol, storageVars, libVars >>

Proposers == 1..MaxProposers
Committers == 1..MaxCommitters
Amounts == {100, 101}
Accounts == {"acct_123"}
ToolNames == {"transfer_funds", "other_tool"}
UnknownProposal == Uuid("proposal", 99)

\* ------------------------------------------------------------------ clock
\* int(time())
UnixTime == now \div TicksPerSec
\* int(utc_now().timestamp() * 1000)
NowMs == now * MsPerTick
\* datetime.fromtimestamp(int(seconds), tz=timezone.utc), in ticks
FromTimestamp(seconds) == seconds * TicksPerSec

Tick ==
    /\ now < MaxClock
    /\ now' = now + 1

\* ------------------------------------------------------------------ commit tokens
CommitSecret == "dev-commit-secret"
hmac_sha256(secret, payload_raw) == [key |-> secret, over |-> payload_raw]

NoPayload ==
    [token_id |-> 0, proposal_id |-> 0, tool_name |-> "", tool_args_hash |-> NoneHash,
     issued_at |-> 0, expires_at |-> 0, nonce |-> 0, composite_score |-> 0]
\* payload_raw is kept as the record its JSON text stands for; bytes that
\* json.loads rejects are kept as a record carrying this text
NotJsonText == "not json"
\* json.loads(payload_raw.decode("utf-8")) returns
json_loads(payload_raw) == payload_raw.tool_name # NotJsonText
\* a string that does not split/base64-decode
GarbageToken ==
    [decodable |-> FALSE, payload |-> NoPayload, sig |-> hmac_sha256("", NoPayload)]

\* variant of issue that signs with another key than verify checks with
CommitTokenIssueOtherKey(proposal_id, tool_name, args_digest, score, token_id, nonce) ==
    LET issued_at == UnixTime
        token_payload ==
            [token_id |-> token_id, proposal_id |-> proposal_id, tool_name |-> tool_name,
             tool_args_hash |-> args_digest, issued_at |-> issued_at,
             expires_at |-> issued_at + TtlSeconds, nonce |-> nonce,
             composite_score |-> score]
    IN [decodable |-> TRUE, payload |-> token_payload,
        sig |-> hmac_sha256("", token_payload)]
\* CommitTokenManager.issue; the payload field is payload_raw, the JSON text
\* with sorted keys, which is the same for two payloads iff they are equal
CommitTokenIssue(proposal_id, tool_name, args_digest, score, token_id, nonce) ==
    LET issued_at == UnixTime
        token_payload ==
            [token_id |-> token_id, proposal_id |-> proposal_id, tool_name |-> tool_name,
             tool_args_hash |-> args_digest, issued_at |-> issued_at,
             expires_at |-> issued_at + TtlSeconds, nonce |-> nonce,
             composite_score |-> score]
    IN [decodable |-> TRUE, payload |-> token_payload,
        sig |-> hmac_sha256(CommitSecret, token_payload)]

\* variant of CommitTokenManager.verify that accepts a token at its expires_at
CommitTokenVerifyLenient(token) ==
    IF ~token.decodable
    THEN [valid |-> FALSE, reason |-> "bad_signature", has_payload |-> FALSE, payload |-> NoPayload]
    ELSE IF hmac_sha256(CommitSecret, token.payload) # token.sig
    THEN [valid |-> FALSE, reason |-> "bad_signature", has_payload |-> FALSE, payload |-> NoPayload]
    ELSE IF ~json_loads(token.payload)
    THEN [valid |-> FALSE, reason |-> "bad_signature", has_payload |-> FALSE, payload |-> NoPayload]
    ELSE IF token.payload.expires_at < UnixTime
    THEN [valid |-> FALSE, reason |-> "expired", has_payload |-> TRUE, payload |-> token.payload]
    ELSE [valid |-> TRUE, reason |-> "ok", has_payload |-> TRUE, payload |-> token.payload]
\* CommitTokenManager.verify; has_payload tells payload from None
CommitTokenVerify(token) ==
    IF ~token.decodable
    THEN [valid |-> FALSE, reason |-> "bad_signature", has_payload |-> FALSE, payload |-> NoPayload]
    ELSE IF hmac_sha256(CommitSecret, token.payload) # token.sig
    THEN [valid |-> FALSE, reason |-> "bad_signature", has_payload |-> FALSE, payload |-> NoPayload]
    ELSE IF ~json_loads(token.payload)
    THEN [valid |-> FALSE, reason |-> "bad_signature", has_payload |-> FALSE, payload |-> NoPayload]
    ELSE IF token.payload.expires_at <= UnixTime
    THEN [valid |-> FALSE, reason |-> "expired", has_payload |-> TRUE, payload |-> token.payload]
    ELSE [valid |-> TRUE, reason |-> "ok", has_payload |-> TRUE, payload |-> token.payload]

\* what a client can present: issued tokens, an issued token with its expiry
\* pushed back (signature unchanged), and a malformed string
Tampered(token) == [token EXCEPT !.payload.expires_at = @ + 10]
PresentableTokens == issued \cup {Tampered(t) : t \in issued} \cup {GarbageToken}
\* bytes that are not JSON, signed with the manager's key
UnparsableToken ==
    LET payload_raw == [NoPayload EXCEPT !.tool_name = NotJsonText]
    IN [decodable |-> TRUE, payload |-> payload_raw,
        sig |-> hmac_sha256(CommitSecret, payload_raw)]

\* ------------------------------------------------------------------ storage (InMemoryStorage)
get_proposal(proposal_id) == {r \in proposals : r.proposal_id = proposal_id}
ProposalIds == {r.proposal_id : r \in proposals}

\* nonce_seen: purge expired rows, then check and insert
NoncesAfterPurge == {r \in nonces : ~(r.expires_at <= now)}
\* variant of nonce_seen that never reports a stored nonce
nonce_seen_resultNever(nonce) == FALSE
\* nonce_seen: purge what has expired, then report whether the nonce is stored
nonce_seen_result(nonce) == \E r \in NoncesAfterPurge : r.nonce = nonce
nonce_seen_store(nonce, token_id, expires_at) ==
    IF nonce_seen_result(nonce) THEN NoncesAfterPurge
    ELSE NoncesAfterPurge \cup {[nonce |-> nonce, token_id |-> token_id, expires_at |-> expires_at]}


\* nonce_seen called directly on an InMemoryStorage: the body has no await,
\* so it runs in one step of the event loop (storage.py lines 89-98)
NonceCallers == 1..MaxNonceCallers
\* the nonce rows two commit tokens would store: the first expires at
\* TtlTicks, the second after the clock's bound
NonceTokens ==
    {[nonce |-> Uuid("nonce", i), token_id |-> Uuid("token", i),
      expires_at |-> i * TtlTicks] : i \in 1..2}
IdleNonceCall ==
    [pc |-> "idle", nonce |-> 0, token_id |-> 0, expires_at |-> 0,
     deleted |-> {}, inserted |-> {}, result |-> "None"]
MemNonceSeen(k, token) ==
    /\ ncall[k].pc = "idle"
    /\ nonces' = nonce_seen_store(token.nonce, token.token_id, token.expires_at)
    /\ ncall' = [ncall EXCEPT ![k] =
            [@ EXCEPT !.pc = "done", !.nonce = token.nonce,
                      !.token_id = token.token_id, !.expires_at = token.expires_at,
                      !.result = IF nonce_seen_result(token.nonce)
                                 THEN "True" ELSE "False"]]
    /\ UNCHANGED << now, block_threshold, baseline, proposals, commits, ledger, issued,
                    direct_issues, ptask, ctask, effects, verified_ok,
                    verifierVars, interceptVars, tokenVars, pol, pg, libVars >>

\* ------------------------------------------------------------------ storage (PostgresStorage)
\* the nonces table (committed rows), whether nonce is unique-constrained in
\* the schema, which is created outside this code, and one transaction per
\* nonce_seen call
FreshPg(unique) ==
    [unique |-> unique, rows |-> {}, txn |-> [k \in NonceCallers |-> IdleNonceCall]]
\* what a statement of transaction k reads under READ COMMITTED (asyncpg's
\* conn.transaction() default): committed rows and its own changes
PgVisible(k) == (pg.rows \ pg.txn[k].deleted) \cup pg.txn[k].inserted
PgUnchanged ==
    UNCHANGED << now, commitVars, verifierVars, interceptVars, tokenVars, pol, ncall,
                 libVars >>

\* connect, acquire, open the transaction (lines 183-186)
PgBegin(k, token) ==
    /\ pg.txn[k].pc = "idle"
    /\ pg' = [pg EXCEPT !.txn[k] =
            [@ EXCEPT !.pc = "delete", !.nonce = token.nonce,
                      !.token_id = token.token_id, !.expires_at = token.expires_at]]
    /\ PgUnchanged
\* DELETE FROM nonces WHERE expires_at <= NOW() (line 187)
PgDelete(k) ==
    /\ pg.txn[k].pc = "delete"
    /\ pg' = [pg EXCEPT !.txn[k] =
            [@ EXCEPT !.pc = "select",
                      !.deleted = {r \in pg.rows : r.expires_at <= now}]]
    /\ PgUnchanged
\* SELECT nonce FROM nonces WHERE nonce=$1, and return True if a row exists
\* (lines 188-190)
PgSelect(k) ==
    /\ pg.txn[k].pc = "select"
    /\ LET exists == \E r \in PgVisible(k) : r.nonce = pg.txn[k].nonce
       IN pg' = [pg EXCEPT !.txn[k] =
            IF exists THEN [@ EXCEPT !.pc = "commit", !.result = "True"]
            ELSE [@ EXCEPT !.pc = "insert"]]
    /\ PgUnchanged
\* INSERT INTO nonces ..., and return False (lines 191-197). Under a unique
\* constraint the statement waits for an open transaction that inserted the
\* same nonce, and raises UniqueViolationError when that row is committed:
\* the exception leaves nonce_seen and the transaction is rolled back
PgInsert(k) ==
    /\ pg.txn[k].pc = "insert"
    /\ LET t == pg.txn[k]
           pending == \E j \in NonceCallers \ {k} :
                         /\ pg.txn[j].pc = "commit"
                         /\ \E r \in pg.txn[j].inserted : r.nonce = t.nonce
           committed == \E r \in pg.rows \ t.deleted : r.nonce = t.nonce
           row == [nonce |-> t.nonce, token_id |-> t.token_id,
                   expires_at |-> t.expires_at]
       IN /\ pg.unique => ~pending
          /\ pg' = [pg EXCEPT !.txn[k] =
                IF pg.unique /\ committed
                THEN [@ EXCEPT !.pc = "done", !.result = "raised",
                               !.deleted = {}, !.inserted = {}]
                ELSE [@ EXCEPT !.pc = "commit", !.result = "False",
                               !.inserted = {row}]]
    /\ PgUnchanged
\* leaving `async with conn.transaction()` commits
PgCommit(k) ==
    /\ pg.txn[k].pc = "commit"
    /\ pg' = [pg EXCEPT !.rows = (pg.rows \ pg.txn[k].deleted) \cup pg.txn[k].inserted,
                        !.txn[k] = [@ EXCEPT !.pc = "done"]]
    /\ PgUnchanged


\* ------------------------------------------------------------------ proposer
TransferTool == "transfer_funds"
DefaultBlockThreshold == Milli(450)

IdlePropose ==
    [pc |-> "idle", amount |-> 0, to |-> "", prompt |-> <<>>, p_hash |-> NoneHash,
     baseline |-> NoneHash, status |-> "", proposal_id |-> 0, token_id |-> 0,
     score |-> 0, drift |-> NoneNum]

\* propose_transfer_funds up to the baseline read (lines 43-49)
ProposeBegin(q, amount, to, prompt) ==
    /\ ptask[q].pc = "idle"
    /\ \A r \in Proposers : r < q => ptask[r].pc # "idle"
    /\ ptask' = [ptask EXCEPT ![q] =
            [@ EXCEPT !.pc = IF baseline[TransferTool] = NoneHash
                             THEN "set_baseline" ELSE "save",
                      !.amount = amount, !.to = to, !.prompt = prompt,
                      !.p_hash = prompt_hash(prompt),
                      !.baseline = baseline[TransferTool]]]
    /\ UNCHANGED << outsideCommit, now, block_threshold, baseline, proposals, commits, nonces,
                    ledger, issued, direct_issues, ctask, effects, verified_ok >>

\* storage.set_baseline_prompt_hash (lines 50-51)
ProposeSetBaseline(q) ==
    /\ ptask[q].pc = "set_baseline"
    /\ baseline' = [baseline EXCEPT ![TransferTool] = ptask[q].p_hash]
    /\ ptask' = [ptask EXCEPT ![q].pc = "save"]
    /\ UNCHANGED << outsideCommit, now, block_threshold, proposals, commits, nonces,
                    ledger, issued, direct_issues, ctask, effects, verified_ok >>

\* variant of the decision that allows a score equal to the threshold
ProposalDecisionAtThreshold(score) == IF score <= block_threshold THEN "allow" ELSE "block"
\* line 64
ProposalDecision(score) == IF score < block_threshold THEN "allow" ELSE "block"

\* variant of the steps after save_proposal that issues a token whatever the
\* decision
AfterSaveAlwaysIssues(t, decision) == [t EXCEPT !.pc = "issue"]
\* lines 75-89: a blocked proposal returns the draft; an allowed one goes on
\* to the token issue
AfterSave(t, decision) ==
    IF decision = "block"
    THEN [t EXCEPT !.pc = "done", !.status = "blocked"]
    ELSE [t EXCEPT !.pc = "issue"]

\* scoring, save_proposal and the blocked return (lines 53-89)
ProposeSave(q) ==
    /\ ptask[q].pc = "save"
    /\ LET t == ptask[q]
           args == ToolArgs(t.amount, t.to)
           signals == ProposalSignals(t.prompt, t.baseline)
           score == composite_score(signals)
           proposal_id == Uuid("proposal", q)
           decision == ProposalDecision(score)
       IN /\ proposals' = {r \in proposals : r.proposal_id # proposal_id} \cup
                {[proposal_id |-> proposal_id, tool_name |-> TransferTool,
                  args_json |-> canonical_json(args), prompt_hash |-> t.p_hash,
                  composite_score |-> score, decision |-> decision]}
          /\ ptask' = [ptask EXCEPT ![q] =
                AfterSave([t EXCEPT !.proposal_id = proposal_id, !.score = score,
                                    !.drift = signals.prompt_drift], decision)]
    /\ UNCHANGED << outsideCommit, now, block_threshold, baseline, commits, nonces, ledger,
                    issued, direct_issues, ctask, effects, verified_ok >>

\* variant of the token issue that also stores the token's nonce
ProposeIssueStoresNonce(q) ==
    /\ ptask[q].pc = "issue"
    /\ LET t == ptask[q]
           token == CommitTokenIssue(t.proposal_id, TransferTool,
                                     tool_args_hash(ToolArgs(t.amount, t.to)),
                                     t.score, Uuid("token", q), Uuid("nonce", q))
       IN /\ issued' = issued \cup {token}
          /\ nonces' = nonces \cup
                {[nonce |-> token.payload.nonce, token_id |-> token.payload.token_id,
                  expires_at |-> FromTimestamp(token.payload.expires_at)]}
          /\ ptask' = [ptask EXCEPT ![q] =
                [t EXCEPT !.pc = "done", !.status = "allowed",
                          !.token_id = token.payload.token_id]]
    /\ UNCHANGED << outsideCommit, now, block_threshold, baseline, proposals, commits,
                    ledger, direct_issues, ctask, effects, verified_ok >>
\* token_manager.issue and the allowed return (lines 91-105)
ProposeIssue(q) ==
    /\ ptask[q].pc = "issue"
    /\ LET t == ptask[q]
           token == CommitTokenIssue(t.proposal_id, TransferTool,
                                     tool_args_hash(ToolArgs(t.amount, t.to)),
                                     t.score, Uuid("token", q), Uuid("nonce", q))
       IN /\ issued' = issued \cup {token}
          /\ ptask' = [ptask EXCEPT ![q] =
                [t EXCEPT !.pc = "done", !.status = "allowed",
                          !.token_id = token.payload.token_id]]
    /\ UNCHANGED << outsideCommit, now, block_threshold, baseline, proposals, commits, nonces,
                    ledger, direct_issues, ctask, effects, verified_ok >>

\* a holder of the token manager signs a token for an existing proposal
DirectIssue(proposal_id, tool_name, amount, to) ==
    /\ direct_issues < MaxDirectIssues
    /\ issued' = issued \cup
            {CommitTokenIssue(proposal_id, tool_name,
                              tool_args_hash(ToolArgs(amount, to)), 0,
                              Uuid("token", MaxProposers + direct_issues + 1),
                              Uuid("nonce", MaxProposers + direct_issues + 1))}
    /\ direct_issues' = direct_issues + 1
    /\ UNCHANGED << outsideCommit, now, block_threshold, baseline, proposals, commits, nonces, ledger,
                    ptask, ctask, effects, verified_ok >>


\* ------------------------------------------------------------------ commit verifier and server
IdleCommit ==
    [pc |-> "idle", proposal_id |-> 0, token |-> GarbageToken,
     tool_name |-> "", amount |-> 0, to |-> "", ok |-> FALSE, reason |-> "",
     status |-> "", token_id |-> 0, after |-> {}, server |-> "DemoToolServer",
     proposal_seen |-> "", token_fresh |-> "unchecked", nonce_replay |-> "unchecked"]
\* what verify_commit was given by its collaborators is kept with the call:
\* the decision of the row get_proposal returned ("none" without a row),
\* whether the clock was before the token's expires_at when
\* token_manager.verify ran, and the answer of storage.nonce_seen
SeenDecision(proposal) ==
    IF proposal = {} THEN "none" ELSE (CHOOSE r \in proposal : TRUE).decision

\* return CommitVerification(ok=False, reason=...)
Rejected(t, reason) ==
    [t EXCEPT !.pc = "verified", !.ok = FALSE, !.reason = reason]

\* transfer_funds_commit up to verify_commit's proposal load (server.py lines
\* 41-49, verifier.py lines 37-42)
\* variant of the proposal check that skips the decision
CheckProposalAnyDecision(t, proposal) ==
    IF proposal = {} THEN Rejected(t, "unknown_proposal")
    ELSE [t EXCEPT !.pc = "verify_token"]
\* the proposal check of verify_commit (verifier.py lines 37-42)
CheckProposal(t, proposal) ==
    IF proposal = {} THEN Rejected(t, "unknown_proposal")
    ELSE IF \E r \in proposal : r.decision # "allow"
         THEN Rejected(t, "unknown_proposal")
         ELSE [t EXCEPT !.pc = "verify_token"]
\* `after` keeps the commit calls that had returned when this one started
CommitBegin(p, proposal_id, token, amount, to) ==
    /\ ctask[p].pc = "idle"
    /\ \A r \in Committers : r < p => ctask[r].pc # "idle"
    /\ LET t == [IdleCommit EXCEPT !.proposal_id = proposal_id,
                                   !.token = token, !.tool_name = TransferTool,
                                   !.amount = amount, !.to = to,
                                   !.after = {r \in Committers : ctask[r].pc = "done"},
                                   !.proposal_seen = SeenDecision(get_proposal(proposal_id))]
       IN ctask' = [ctask EXCEPT ![p] = CheckProposal(t, get_proposal(proposal_id))]
    /\ UNCHANGED << outsideCommit, now, block_threshold, baseline, proposals, commits, nonces,
                    ledger, issued, direct_issues, ptask, effects, verified_ok >>

\* variant of the payload checks that skips the args hash
CheckBindingNoArgs(t, token_check) ==
    IF ~token_check.valid THEN Rejected(t, token_check.reason)
    ELSE IF token_check.payload.proposal_id # t.proposal_id
         THEN Rejected(t, "unknown_proposal")
    ELSE IF token_check.payload.tool_name # t.tool_name
         THEN Rejected(t, "args_hash_mismatch")
    ELSE [t EXCEPT !.pc = "verify_nonce"]
\* variant of the payload checks that compares the tool and the args before
\* the proposal
CheckBindingArgsFirst(t, token_check) ==
    IF ~token_check.valid THEN Rejected(t, token_check.reason)
    ELSE IF token_check.payload.tool_name # t.tool_name
         THEN Rejected(t, "args_hash_mismatch")
    ELSE IF token_check.payload.tool_args_hash # tool_args_hash(ToolArgs(t.amount, t.to))
         THEN Rejected(t, "args_hash_mismatch")
    ELSE IF token_check.payload.proposal_id # t.proposal_id
         THEN Rejected(t, "unknown_proposal")
    ELSE [t EXCEPT !.pc = "verify_nonce"]
\* the payload checks of verify_commit (lines 48-58), given the token check
CheckBinding(t, token_check) ==
    IF ~token_check.valid THEN Rejected(t, token_check.reason)
    ELSE IF token_check.payload.proposal_id # t.proposal_id
         THEN Rejected(t, "unknown_proposal")
    ELSE IF token_check.payload.tool_name # t.tool_name
         THEN Rejected(t, "args_hash_mismatch")
    ELSE IF token_check.payload.tool_args_hash # tool_args_hash(ToolArgs(t.amount, t.to))
         THEN Rejected(t, "args_hash_mismatch")
    ELSE [t EXCEPT !.pc = "verify_nonce"]

\* token_manager.verify and the payload checks (verifier.py lines 44-58)
VerifyToken(p) ==
    /\ ctask[p].pc = "verify_token"
    /\ ctask' = [ctask EXCEPT ![p] =
            CheckBinding([ctask[p] EXCEPT !.token_fresh =
                              IF now < FromTimestamp(ctask[p].token.payload.expires_at)
                              THEN "True" ELSE "False"],
                         CommitTokenVerify(ctask[p].token))]
    /\ UNCHANGED << outsideCommit, now, block_threshold, baseline, proposals, commits, nonces,
                    ledger, issued, direct_issues, ptask, effects, verified_ok >>

\* storage.nonce_seen and the result (verifier.py lines 60-65)
VerifyNonce(p) ==
    /\ ctask[p].pc = "verify_nonce"
    /\ LET payload == ctask[p].token.payload
           expires_at == FromTimestamp(payload.expires_at)
           nonce_replay == nonce_seen_result(payload.nonce)
           t == [ctask[p] EXCEPT !.nonce_replay = IF nonce_replay THEN "True" ELSE "False"]
       IN /\ nonces' = nonce_seen_store(payload.nonce, payload.token_id, expires_at)
          /\ IF nonce_replay
             THEN /\ ctask' = [ctask EXCEPT ![p] =
                        Rejected(t, "nonce_replay")]
                  /\ verified_ok' = verified_ok
             ELSE /\ ctask' = [ctask EXCEPT ![p] =
                        [t EXCEPT !.pc = "verified", !.ok = TRUE, !.reason = "ok"]]
                  /\ verified_ok' = verified_ok \cup
                        {<<t.tool_name, tool_args_hash(ToolArgs(t.amount, t.to))>>}
    /\ UNCHANGED << outsideCommit, now, block_threshold, baseline, proposals, commits,
                    ledger, issued, direct_issues, ptask, effects >>

CommitRow(commit_id, proposal_id, token_id, decision, verification_reason) ==
    [commit_id |-> commit_id, proposal_id |-> proposal_id, token_id |-> token_id,
     decision |-> decision, verification_reason |-> verification_reason]

\* transfer_funds_commit after verify_commit returned (server.py lines 51-69):
\* the blocked row and return, or the ledger append
CommitExecute(p) ==
    /\ ctask[p].pc = "verified"
    /\ ctask[p].server = "DemoToolServer"
    /\ LET t == ctask[p]
           checked_token == CommitTokenVerify(t.token)
           token_id == IF checked_token.has_payload
                       THEN checked_token.payload.token_id ELSE 0
       IN IF ~t.ok
          THEN /\ commits' = commits \cup
                    {CommitRow(Uuid("commit", p), t.proposal_id, token_id, "blocked", t.reason)}
               /\ ctask' = [ctask EXCEPT ![p] =
                    [t EXCEPT !.pc = "done", !.status = "blocked", !.token_id = token_id]]
               /\ UNCHANGED << ledger, effects >>
          ELSE /\ ledger' = Append(ledger,
                    [proposal_id |-> t.proposal_id, amount |-> t.amount, to |-> t.to,
                     status |-> "executed"])
               /\ effects' = Append(effects,
                    [task |-> p, proposal_id |-> t.proposal_id,
                     nonce |-> t.token.payload.nonce])
               /\ ctask' = [ctask EXCEPT ![p] =
                    [t EXCEPT !.pc = "record", !.token_id = token_id]]
               /\ UNCHANGED commits
    /\ UNCHANGED << outsideCommit, now, block_threshold, baseline, proposals, nonces, issued,
                    direct_issues, ptask, verified_ok >>

\* record_commit(decision="committed") and the return (server.py lines 71-81)
CommitRecord(p) ==
    /\ ctask[p].pc = "record"
    /\ ctask[p].server = "DemoToolServer"
    /\ commits' = commits \cup
            {CommitRow(Uuid("commit", p), ctask[p].proposal_id, ctask[p].token_id,
                       "committed", "ok")}
    /\ ctask' = [ctask EXCEPT ![p] = [@ EXCEPT !.pc = "done", !.status = "committed"]]
    /\ UNCHANGED << outsideCommit, now, block_threshold, baseline, proposals, nonces, ledger, issued,
                    direct_issues, ptask, effects, verified_ok >>


\* RealWorldMCPServer._execute_high_risk from the allowed proposal to
\* verify_commit's proposal load (real_world_server.py lines 246-258): the
\* commit is made with the token, the tool and the arguments of the proposal
\* the same call obtained
HighRiskBegin(p, q) ==
    /\ ctask[p].pc = "idle"
    /\ \A r \in Committers : r < p => ctask[r].pc # "idle"
    /\ ptask[q].pc = "done" /\ ptask[q].status = "allowed"
    /\ \A r \in Committers :
           ctask[r].server = "RealWorldMCPServer" =>
               ctask[r].proposal_id # ptask[q].proposal_id
    /\ \E token \in issued :
           /\ token.payload.token_id = ptask[q].token_id
           /\ LET t == [IdleCommit EXCEPT !.server = "RealWorldMCPServer",
                                          !.proposal_id = ptask[q].proposal_id,
                                          !.token = token, !.tool_name = TransferTool,
                                          !.amount = ptask[q].amount, !.to = ptask[q].to,
                                          !.after = {r \in Committers : ctask[r].pc = "done"},
                                          !.proposal_seen =
                                              SeenDecision(get_proposal(ptask[q].proposal_id))]
              IN ctask' = [ctask EXCEPT ![p] =
                     CheckProposal(t, get_proposal(ptask[q].proposal_id))]
    /\ UNCHANGED << outsideCommit, now, block_threshold, baseline, proposals, commits, nonces,
                    ledger, issued, direct_issues, ptask, effects, verified_ok >>
\* _execute_high_risk after verify_commit returned (lines 259-268): the
\* blocked return, which records nothing, or the tool's side effect
HighRiskExecute(p) ==
    /\ ctask[p].pc = "verified"
    /\ ctask[p].server = "RealWorldMCPServer"
    /\ LET t == ctask[p]
       IN IF ~t.ok
          THEN /\ ctask' = [ctask EXCEPT ![p] = [t EXCEPT !.pc = "done", !.status = "blocked"]]
               /\ UNCHANGED effects
          ELSE /\ effects' = Append(effects,
                    [task |-> p, proposal_id |-> t.proposal_id,
                     nonce |-> t.token.payload.nonce])
               /\ ctask' = [ctask EXCEPT ![p] =
                    [t EXCEPT !.pc = "record", !.token_id = t.token.payload.token_id]]
    /\ UNCHANGED << outsideCommit, now, block_threshold, baseline, proposals, commits, nonces,
                    ledger, issued, direct_issues, ptask, verified_ok >>
\* record_commit(decision="committed") and the return (lines 269-279)
HighRiskRecord(p) ==
    /\ ctask[p].pc = "record"
    /\ ctask[p].server = "RealWorldMCPServer"
    /\ commits' = commits \cup
            {CommitRow(Uuid("commit", p), ctask[p].proposal_id, ctask[p].token_id,
                       "committed", "ok")}
    /\ ctask' = [ctask EXCEPT ![p] = [@ EXCEPT !.pc = "done", !.status = "committed"]]
    /\ UNCHANGED << outsideCommit, now, block_threshold, baseline, proposals, nonces, ledger, issued,
                    direct_issues, ptask, effects, verified_ok >>

\* record_commit does not complete: storage.save_commit raises, or the task is
\* cancelled at the await (server.py lines 55 and 71, verifier.py line 76);
\* the exception leaves transfer_funds_commit and no row is written
CommitRecordAborted(p) ==
    /\ \/ ctask[p].pc = "record"
       \/ ctask[p].pc = "verified" /\ ~ctask[p].ok
    /\ ctask' = [ctask EXCEPT ![p] = [@ EXCEPT !.pc = "done", !.status = "raised"]]
    /\ UNCHANGED << outsideCommit, now, block_threshold, baseline, proposals, commits, nonces,
                    ledger, issued, direct_issues, ptask, effects, verified_ok >>


\* ------------------------------------------------------------------ policy (policy/types.py, engine.py, registry.py)
Criticalities == {"LOW", "MEDIUM", "HIGH"}

ToolProfile(name, criticality, irreversible, regulatory, risk_tier) ==
    [name |-> name, criticality |-> criticality, blast_radius |-> "limited",
     irreversible |-> irreversible, regulatory |-> regulatory, risk_tier |-> risk_tier]

\* variant of ToolRegistry.get whose default is a HIGH-criticality profile
registry_getDefaultHigh(profiles, tool_name) ==
    IF \E pr \in profiles : pr.name = tool_name
    THEN CHOOSE pr \in profiles : pr.name = tool_name
    ELSE ToolProfile(tool_name, "HIGH", FALSE, FALSE, "None")
\* ToolRegistry.get: the registered profile, or the LOW default
registry_get(profiles, tool_name) ==
    IF \E pr \in profiles : pr.name = tool_name
    THEN CHOOSE pr \in profiles : pr.name = tool_name
    ELSE ToolProfile(tool_name, "LOW", FALSE, FALSE, "None")

\* the names and the profiles the registry is driven with
RegistryNames == {"initiate_wire_transfer", "cancel_shipment"}
RegistryProfiles ==
    UNION {{ToolProfile(n, "LOW", FALSE, FALSE, "None"),
            ToolProfile(n, "MEDIUM", FALSE, TRUE, "None"),
            ToolProfile(n, "HIGH", TRUE, TRUE, "HIGH")} : n \in RegistryNames}
NoProfile == [name |-> ""]
NoRegistration == [first |-> NoProfile, last |-> NoProfile]
NoGet == [tool_name |-> "", profile |-> NoProfile, after |-> NoRegistration]
\* the log entry of a name after one more register call
Registered(profile) ==
    [first |-> IF registered[profile.name].first = NoProfile
               THEN profile ELSE registered[profile.name].first,
     last |-> profile]
\* ToolRegistry(): no profile, and no call made yet
FreshRegistryLog ==
    /\ registered = [n \in RegistryNames |-> NoRegistration]
    /\ got = NoGet
\* variant of register that keeps the first profile of a name
RegistryRegisterKeepFirst(profile) ==
    /\ registry' = IF \E pr \in registry : pr.name = profile.name
                   THEN registry ELSE registry \cup {profile}
    /\ registered' = [registered EXCEPT ![profile.name] = Registered(profile)]
    /\ UNCHANGED << now, commitVars, verifierVars, routes, icall, invoked, icfg,
                    tokenVars, pol, storageVars, got, engine, hashed, mcall, scored >>
\* ToolRegistry.register: self._profiles[profile.name] = profile
RegistryRegister(profile) ==
    /\ registry' = {pr \in registry : pr.name # profile.name} \cup {profile}
    /\ registered' = [registered EXCEPT ![profile.name] = Registered(profile)]
    /\ UNCHANGED << now, commitVars, verifierVars, routes, icall, invoked, icfg,
                    tokenVars, pol, storageVars, got, engine, hashed, mcall, scored >>
\* ToolRegistry.get: dict.get with a default leaves the dict alone
RegistryGet(tool_name) ==
    /\ got' = [tool_name |-> tool_name, profile |-> registry_get(registry, tool_name),
               after |-> registered[tool_name]]
    /\ UNCHANGED << now, commitVars, verifierVars, interceptVars, tokenVars, pol,
                    storageVars, registered, engine, hashed, mcall, scored >>

DefaultPolicyConfig ==
    [policy_id |-> "risk-bound-exec-v2", policy_version |-> "2.0.0",
     high_block_threshold |-> Milli(350), high_review_threshold |-> Milli(200),
     medium_review_threshold |-> Milli(500)]

PolicyResult(decision, reason, cfg, threshold_used, require_token) ==
    [decision |-> decision, reason |-> reason, policy_id |-> cfg.policy_id,
     policy_version |-> cfg.policy_version, threshold_used |-> threshold_used,
     require_token |-> require_token]

\* variant of evaluate with strict threshold comparisons
evaluateStrictlyAbove(cfg, tool_profile, composite_risk_score) ==
    LET c == tool_profile.criticality
        s == composite_risk_score
    IN IF c = "HIGH"
       THEN IF s > cfg.high_block_threshold
            THEN PolicyResult("BLOCK", "high_criticality_block_threshold", cfg,
                              cfg.high_block_threshold, TRUE)
            ELSE IF s > cfg.high_review_threshold
            THEN PolicyResult("REVIEW", "high_criticality_review_threshold", cfg,
                              cfg.high_review_threshold, TRUE)
            ELSE PolicyResult("ALLOW", "high_criticality_allow", cfg,
                              cfg.high_review_threshold, TRUE)
       ELSE IF c = "MEDIUM"
       THEN IF s > cfg.medium_review_threshold
            THEN PolicyResult("REVIEW", "medium_criticality_review_threshold", cfg,
                              cfg.medium_review_threshold, FALSE)
            ELSE PolicyResult("ALLOW", "medium_criticality_allow", cfg,
                              cfg.medium_review_threshold, FALSE)
       ELSE PolicyResult("ALLOW", "low_criticality_allow", cfg, Scale, FALSE)
\* variant of evaluate that tests the review threshold before the block threshold
evaluateReviewFirst(cfg, tool_profile, composite_risk_score) ==
    LET c == tool_profile.criticality
        s == composite_risk_score
    IN IF c = "HIGH"
       THEN IF s >= cfg.high_review_threshold
            THEN PolicyResult("REVIEW", "high_criticality_review_threshold", cfg,
                              cfg.high_review_threshold, TRUE)
            ELSE IF s >= cfg.high_block_threshold
            THEN PolicyResult("BLOCK", "high_criticality_block_threshold", cfg,
                              cfg.high_block_threshold, TRUE)
            ELSE PolicyResult("ALLOW", "high_criticality_allow", cfg,
                              cfg.high_review_threshold, TRUE)
       ELSE IF c = "MEDIUM"
       THEN IF s >= cfg.medium_review_threshold
            THEN PolicyResult("REVIEW", "medium_criticality_review_threshold", cfg,
                              cfg.medium_review_threshold, FALSE)
            ELSE PolicyResult("ALLOW", "medium_criticality_allow", cfg,
                              cfg.medium_review_threshold, FALSE)
       ELSE PolicyResult("ALLOW", "low_criticality_allow", cfg, Scale, FALSE)
\* PolicyEngine.evaluate
evaluate(cfg, tool_profile, composite_risk_score) ==
    LET c == tool_profile.criticality
        s == composite_risk_score
    IN IF c = "HIGH"
       THEN IF s >= cfg.high_block_threshold
            THEN PolicyResult("BLOCK", "high_criticality_block_threshold", cfg,
                              cfg.high_block_threshold, TRUE)
            ELSE IF s >= cfg.high_review_threshold
            THEN PolicyResult("REVIEW", "high_criticality_review_threshold", cfg,
                              cfg.high_review_threshold, TRUE)
            ELSE PolicyResult("ALLOW", "high_criticality_allow", cfg,
                              cfg.high_review_threshold, TRUE)
       ELSE IF c = "MEDIUM"
       THEN IF s >= cfg.medium_review_threshold
            THEN PolicyResult("REVIEW", "medium_criticality_review_threshold", cfg,
                              cfg.medium_review_threshold, FALSE)
            ELSE PolicyResult("ALLOW", "medium_criticality_allow", cfg,
                              cfg.medium_review_threshold, FALSE)
       ELSE PolicyResult("ALLOW", "low_criticality_allow", cfg, Scale, FALSE)

\* ------------------------------------------------------------------ risk vector (risk/scoring.py, signals.py, vector.py)
\* DEFAULT_WEIGHTS of risk/scoring.py, in 1/1000
RiskWeights ==
    << [key |-> "grounding_risk", weight |-> 300],
       [key |-> "self_consistency_risk", weight |-> 250],
       [key |-> "verifier_risk", weight |-> 250],
       [key |-> "numeric_instability_risk", weight |-> 100],
       [key |-> "tool_mismatch_risk", weight |-> 100],
       [key |-> "drift_risk", weight |-> 100] >>

risk_level(score) ==
    IF score < Milli(200) THEN "low"
    ELSE IF score < Milli(350) THEN "medium"
    ELSE "high"

\* variant of composite_risk_score that divides by the weight of all components
composite_risk_scoreAllWeights(components) ==
    LET present == {i \in 1..Len(RiskWeights) : components[RiskWeights[i].key] # NoneNum}
        weighted == [i \in 1..Len(RiskWeights) |->
                        IF i \in present
                        THEN clamp01(components[RiskWeights[i].key]) * RiskWeights[i].weight
                        ELSE 0]
        weights == [i \in 1..Len(RiskWeights) |-> RiskWeights[i].weight]
        weighted_sum == SumSeq(weighted)
        total_weight == SumSeq(weights)
        score == clamp01(weighted_sum \div total_weight)
    IN IF present = {} THEN [score |-> 0, level |-> "low"]
       ELSE [score |-> score, level |-> risk_level(score)]
composite_risk_score(components) ==
    LET present == {i \in 1..Len(RiskWeights) : components[RiskWeights[i].key] # NoneNum}
        weighted == [i \in 1..Len(RiskWeights) |->
                        IF i \in present
                        THEN clamp01(components[RiskWeights[i].key]) * RiskWeights[i].weight
                        ELSE 0]
        weights == [i \in 1..Len(RiskWeights) |->
                        IF i \in present THEN RiskWeights[i].weight ELSE 0]
        weighted_sum == SumSeq(weighted)
        total_weight == SumSeq(weights)
        score == clamp01(weighted_sum \div total_weight)
    IN IF total_weight <= 0 THEN [score |-> 0, level |-> "low"]
       ELSE [score |-> score, level |-> risk_level(score)]

\* verifier_risk: hedging / absolute tell whether the answer holds a marker
verifier_risk(hedging, absolute, low_grounding) ==
    LET score == Scale - (IF hedging THEN Milli(200) ELSE 0)
                       - (IF absolute THEN Milli(150) ELSE 0)
                       - (IF low_grounding THEN Milli(250) ELSE 0)
    IN clamp01(Scale - clamp01(score))

\* compute_risk_vector, from the values of the text signals: sig holds
\* grounding, self_consistency, numeric_instability (NoneNum when absent),
\* tool_mismatch, drift, and the two marker flags of the answer
compute_risk_vector(sig) ==
    LET g_risk == sig.grounding
        v_risk == verifier_risk(sig.hedging, sig.absolute,
                                g_risk # NoneNum /\ g_risk > Milli(750))
        composite == composite_risk_score(
            [grounding_risk |-> g_risk,
             self_consistency_risk |-> sig.self_consistency,
             verifier_risk |-> v_risk,
             numeric_instability_risk |-> sig.numeric_instability,
             tool_mismatch_risk |-> sig.tool_mismatch,
             drift_risk |-> sig.drift])
    IN [verifier_risk |-> v_risk, composite_risk_score |-> composite.score,
        composite_risk_level |-> composite.level]

\* ------------------------------------------------------------------ execution tokens (token/issuer.py, verifier.py)
ExecSecret == "dev-secret"
ExecSecrets == {ExecSecret, "rotated-secret"}
ttl_ms == TtlTicks * MsPerTick

NoExecPayload ==
    [token_id |-> 0, trace_id |-> 0, tool_name |-> "", tool_args_hash |-> NoneHash,
     decision |-> "", composite_risk_score |-> 0, issued_at |-> 0, expires_at |-> 0,
     nonce |-> 0]
GarbageExecToken ==
    [decodable |-> FALSE, payload |-> NoExecPayload, sig |-> hmac_sha256("", NoExecPayload)]

\* TokenIssuer.issue
TokenIssue(trace_id, tool_name, args_digest, decision, score, token_id, nonce) ==
    LET issued_at == NowMs
        payload ==
            [token_id |-> token_id, trace_id |-> trace_id, tool_name |-> tool_name,
             tool_args_hash |-> args_digest, decision |-> decision,
             composite_risk_score |-> score, issued_at |-> issued_at,
             expires_at |-> issued_at + ttl_ms, nonce |-> nonce]
    IN [decodable |-> TRUE, payload |-> payload, sig |-> hmac_sha256(ExecSecret, payload)]

\* variant of _gc that also evicts the entries expiring within the next second
gcEarly(seen_map, now_ms) == {e \in seen_map : ~(e.exp <= now_ms + 1000)}
\* TokenVerifier._gc
gc(seen_map, now_ms) == {e \in seen_map : ~(e.exp <= now_ms)}

\* variant of TokenVerifier.verify without the replay map
TokenVerifyNoReplayCheck(secret, replay_on, seen_map, token, tool_name, args_digest) ==
    LET now_ms == NowMs
        payload == token.payload
        exp == payload.expires_at
    IN IF ~token.decodable
       THEN [valid |-> FALSE, reason |-> "token_decode_failed", seen |-> seen_map]
       ELSE IF token.sig # hmac_sha256(secret, payload)
       THEN [valid |-> FALSE, reason |-> "invalid_signature", seen |-> seen_map]
       ELSE IF ~json_loads(payload)
       THEN [valid |-> FALSE, reason |-> "invalid_payload_json", seen |-> seen_map]
       ELSE IF exp <= now_ms
       THEN [valid |-> FALSE, reason |-> "token_expired", seen |-> seen_map]
       ELSE IF payload.tool_name # tool_name
       THEN [valid |-> FALSE, reason |-> "tool_name_mismatch", seen |-> seen_map]
       ELSE IF payload.tool_args_hash # args_digest
       THEN [valid |-> FALSE, reason |-> "tool_args_hash_mismatch", seen |-> seen_map]
       ELSE [valid |-> TRUE, reason |-> "ok", seen |-> seen_map]
\* variant of TokenVerifier.verify that looks at the expiry before the signature
TokenVerifyExpiryFirst(secret, replay_on, seen_map, token, tool_name, args_digest) ==
    LET now_ms == NowMs
        payload == token.payload
        exp == payload.expires_at
        token_id == payload.token_id
    IN IF ~token.decodable
       THEN [valid |-> FALSE, reason |-> "token_decode_failed", seen |-> seen_map]
       ELSE IF json_loads(payload) /\ exp <= now_ms
       THEN [valid |-> FALSE, reason |-> "token_expired", seen |-> seen_map]
       ELSE IF token.sig # hmac_sha256(secret, payload)
       THEN [valid |-> FALSE, reason |-> "invalid_signature", seen |-> seen_map]
       ELSE IF ~json_loads(payload)
       THEN [valid |-> FALSE, reason |-> "invalid_payload_json", seen |-> seen_map]
       ELSE IF payload.tool_name # tool_name
       THEN [valid |-> FALSE, reason |-> "tool_name_mismatch", seen |-> seen_map]
       ELSE IF payload.tool_args_hash # args_digest
       THEN [valid |-> FALSE, reason |-> "tool_args_hash_mismatch", seen |-> seen_map]
       ELSE IF replay_on /\ token_id # 0
       THEN IF \E e \in gc(seen_map, now_ms) : e.token_id = token_id
            THEN [valid |-> FALSE, reason |-> "token_replay_detected",
                  seen |-> gc(seen_map, now_ms)]
            ELSE [valid |-> TRUE, reason |-> "ok",
                  seen |-> gc(seen_map, now_ms) \cup {[token_id |-> token_id, exp |-> exp]}]
       ELSE [valid |-> TRUE, reason |-> "ok", seen |-> seen_map]
\* variant of TokenVerifier.verify that stores the token id before it
\* compares the tool name and the args hash
TokenVerifyStoresFirst(secret, replay_on, seen_map, token, tool_name, args_digest) ==
    LET now_ms == NowMs
        payload == token.payload
        exp == payload.expires_at
        token_id == payload.token_id
        stored == IF replay_on /\ token_id # 0
                  THEN gc(seen_map, now_ms) \cup {[token_id |-> token_id, exp |-> exp]}
                  ELSE seen_map
    IN IF ~token.decodable
       THEN [valid |-> FALSE, reason |-> "token_decode_failed", seen |-> seen_map]
       ELSE IF token.sig # hmac_sha256(secret, payload)
       THEN [valid |-> FALSE, reason |-> "invalid_signature", seen |-> seen_map]
       ELSE IF ~json_loads(payload)
       THEN [valid |-> FALSE, reason |-> "invalid_payload_json", seen |-> seen_map]
       ELSE IF exp <= now_ms
       THEN [valid |-> FALSE, reason |-> "token_expired", seen |-> seen_map]
       ELSE IF replay_on /\ token_id # 0
               /\ \E e \in gc(seen_map, now_ms) : e.token_id = token_id
       THEN [valid |-> FALSE, reason |-> "token_replay_detected",
             seen |-> gc(seen_map, now_ms)]
       ELSE IF payload.tool_name # tool_name
       THEN [valid |-> FALSE, reason |-> "tool_name_mismatch", seen |-> stored]
       ELSE IF payload.tool_args_hash # args_digest
       THEN [valid |-> FALSE, reason |-> "tool_args_hash_mismatch", seen |-> stored]
       ELSE [valid |-> TRUE, reason |-> "ok", seen |-> stored]
\* TokenVerifier.verify: the result and the replay map it leaves
TokenVerify(secret, replay_on, seen_map, token, tool_name, args_digest) ==
    LET now_ms == NowMs
        payload == token.payload
        exp == payload.expires_at
        token_id == payload.token_id
    IN IF ~token.decodable
       THEN [valid |-> FALSE, reason |-> "token_decode_failed", seen |-> seen_map]
       ELSE IF token.sig # hmac_sha256(secret, payload)
       THEN [valid |-> FALSE, reason |-> "invalid_signature", seen |-> seen_map]
       ELSE IF ~json_loads(payload)
       THEN [valid |-> FALSE, reason |-> "invalid_payload_json", seen |-> seen_map]
       ELSE IF exp <= now_ms
       THEN [valid |-> FALSE, reason |-> "token_expired", seen |-> seen_map]
       ELSE IF payload.tool_name # tool_name
       THEN [valid |-> FALSE, reason |-> "tool_name_mismatch", seen |-> seen_map]
       ELSE IF payload.tool_args_hash # args_digest
       THEN [valid |-> FALSE, reason |-> "tool_args_hash_mismatch", seen |-> seen_map]
       ELSE IF replay_on /\ token_id # 0
       THEN IF \E e \in gc(seen_map, now_ms) : e.token_id = token_id
            THEN [valid |-> FALSE, reason |-> "token_replay_detected",
                  seen |-> gc(seen_map, now_ms)]
            ELSE [valid |-> TRUE, reason |-> "ok",
                  seen |-> gc(seen_map, now_ms) \cup {[token_id |-> token_id, exp |-> exp]}]
       ELSE [valid |-> TRUE, reason |-> "ok", seen |-> seen_map]

\* ------------------------------------------------------------------ fallback (fallback/router.py, templates.py)
block_response_template(tool_name, reason) ==
    [status |-> "blocked", tool |-> tool_name, reason |-> reason,
     message |-> "Execution blocked by MCP Observatory policy."]
review_response_template(tool_name, reason) ==
    [status |-> "review_required", tool |-> tool_name, reason |-> reason,
     message |-> "Execution requires human review before proceeding."]
\* _draft_fallback, the safe handler demo/real_world_server.py registers
draft_fallback(tool_args) ==
    [status |-> "draft_created", tool_args |-> tool_args,
     message |-> "Execution blocked for safety; draft created for human review."]

\* variant of route that never looks up a handler
routeTemplateOnly(route_map, tool_name, tool_args, reason) ==
    [result |-> block_response_template(tool_name, reason), type |-> "template"]
\* FallbackRouter.route: the handler's result when one is registered for the
\* tool, else the block template
route(route_map, tool_name, tool_args, reason) ==
    IF tool_name \notin route_map
    THEN [result |-> block_response_template(tool_name, reason), type |-> "template"]
    ELSE [result |-> draft_fallback(tool_args), type |-> "safe_tool"]

\* ------------------------------------------------------------------ interceptor (core/interceptor.py, utils/hashing.py)
\* The trace of a call lists the stages it went through, in the order the
\* code runs them: Started (lines 106-111), RiskComputed (113-130),
\* PolicyEvaluated (132-142), ReviewPath (144-148), BlockPath (149-153),
\* AllowPath (154), TokenIssued (156-167), TokenVerified (169-171),
\* ToolInvoked (182, 185), Finalized (187-189, span ended and exported).

Calls == 1..MaxCalls

\* utils.hashing.normalize_text over the JSON text: the string values are
\* lowercased and their whitespace runs collapsed (the JSON text starts and
\* ends with a brace, so strip() removes nothing)
RECURSIVE normalize_text(_)
normalize_text(payload) ==
    [i \in 1..Len(payload) |->
        <<payload[i][1],
          IF IsDictKey(payload[i][1]) THEN normalize_text(payload[i][2])
          ELSE CollapseWs(Lower(payload[i][2]))>>]
\* utils.hashing.args_hash
args_hash(tool_args) == sha256_hex(normalize_text(SortKeys(tool_args)))

\* {"amount": 1200.0, "destination": "ACCT-1"} and the same with "acct-1"
CallArgsUpper ==
    << <<"amount", <<Word("1200.0", 1200)>> >>, <<"destination", <<CapWord("acct-1", 1)>> >> >>
CallArgsLower ==
    << <<"amount", <<Word("1200.0", 1200)>> >>, <<"destination", <<Word("acct-1", 1)>> >> >>
\* {"amount": 1300.0, "destination": "acct-1"}
CallArgsOther ==
    << <<"amount", <<Word("1300.0", 1300)>> >>, <<"destination", <<Word("acct-1", 1)>> >> >>
CallArgs == {CallArgsUpper, CallArgsLower}

\* the profiles @tool_profile registers in demo/real_world_server.py (one per
\* criticality and irreversibility); "unregistered_tool" has none
DemoRegistry ==
    { ToolProfile("initiate_wire_transfer", "HIGH", TRUE, TRUE, "HIGH"),
      ToolProfile("freeze_payment_card", "HIGH", FALSE, TRUE, "HIGH"),
      ToolProfile("issue_invoice_refund", "MEDIUM", FALSE, TRUE, "MEDIUM"),
      ToolProfile("cancel_shipment", "LOW", FALSE, FALSE, "LOW") }
CallTools == {pr.name : pr \in DemoRegistry} \cup {"unregistered_tool"}

\* values of the text signals of risk/signals.py
RiskSignals ==
    [grounding : {NoneNum, 0, Milli(500), Scale},
     self_consistency : {NoneNum, Scale},
     numeric_instability : {NoneNum},
     tool_mismatch : {0, Scale},
     drift : {0},
     hedging : BOOLEAN,
     absolute : {FALSE}]

NoResult == [status |-> "none"]
IdleCall ==
    [pc |-> "idle", tool_name |-> "", tool_args |-> <<>>, tool_args_hash |-> NoneHash,
     composite_risk_score |-> 0, composite_risk_level |-> "low",
     policy_decision |-> "", policy_reason |-> "", require_token |-> FALSE,
     token |-> GarbageExecToken, exec_token_id |-> 0, exec_token_verified |-> "None",
     verify_reason |-> "", fallback_used |-> FALSE, fallback_type |-> "None",
     fallback_reason |-> "None", result |-> NoResult, ended |-> FALSE,
     shadow_scheduled |-> FALSE, exported |-> FALSE, raised_by |-> "None",
     returned |-> NoResult, shadow |-> "None", shadow_exported |-> FALSE,
     router_calls |-> 0, trace |-> <<>>]
\* MCPInterceptor(tracer) as instrument() builds it: no exporter, V2Config()
DefaultInterceptorConfig == [exporter |-> FALSE, shadow_for_high_risk |-> TRUE]

\* variant of the branch that treats REVIEW as ALLOW
AfterPolicyReviewRuns(ctx, policy, routed, issued_token) ==
    IF policy.decision = "BLOCK"
    THEN [ctx EXCEPT !.pc = "finish", !.fallback_used = TRUE,
                     !.fallback_reason = policy.reason,
                     !.result = routed.result, !.fallback_type = routed.type,
                     !.router_calls = 1]
    ELSE IF policy.require_token
    THEN [ctx EXCEPT !.pc = "verify", !.token = issued_token,
                     !.exec_token_id = issued_token.payload.token_id]
    ELSE [ctx EXCEPT !.pc = "invoke"]
\* variant of the branch that sends REVIEW through the router as well
AfterPolicyReviewRouted(ctx, policy, routed, issued_token) ==
    IF policy.decision \in {"REVIEW", "BLOCK"}
    THEN [ctx EXCEPT !.pc = "finish", !.fallback_used = TRUE,
                     !.fallback_reason = policy.reason,
                     !.result = routed.result, !.fallback_type = routed.type,
                     !.router_calls = 1]
    ELSE IF policy.require_token
    THEN [ctx EXCEPT !.pc = "verify", !.token = issued_token,
                     !.exec_token_id = issued_token.payload.token_id]
    ELSE [ctx EXCEPT !.pc = "invoke"]
\* the branch on the policy decision (lines 144-167); router_calls counts the
\* calls of fallback_router.route
AfterPolicy(ctx, policy, routed, issued_token) ==
    IF policy.decision = "REVIEW"
    THEN [ctx EXCEPT !.pc = "finish", !.fallback_used = TRUE,
                     !.fallback_type = "human_review",
                     !.fallback_reason = policy.reason,
                     !.result = review_response_template(ctx.tool_name, policy.reason),
                     !.trace = Append(@, "ReviewPath")]
    ELSE IF policy.decision = "BLOCK"
    THEN [ctx EXCEPT !.pc = "finish", !.fallback_used = TRUE,
                     !.fallback_reason = policy.reason,
                     !.result = routed.result, !.fallback_type = routed.type,
                     !.router_calls = 1,
                     !.trace = Append(@, "BlockPath")]
    ELSE IF policy.require_token
    THEN [ctx EXCEPT !.pc = "verify", !.token = issued_token,
                     !.exec_token_id = issued_token.payload.token_id,
                     !.trace = @ \o <<"AllowPath", "TokenIssued">>]
    ELSE [ctx EXCEPT !.pc = "invoke", !.trace = Append(@, "AllowPath")]

\* intercept_tool_call up to the token issue (lines 106-167)
InterceptBegin(c, tool_name, tool_args, sig) ==
    /\ icall[c].pc = "idle"
    /\ LET digest == args_hash(tool_args)
           rv == compute_risk_vector(sig)
           profile == registry_get(registry, tool_name)
           policy == evaluate(DefaultPolicyConfig, profile, rv.composite_risk_score)
           routed == route(routes, tool_name, tool_args, policy.reason)
           issued_token == TokenIssue(Uuid("trace", c), tool_name, digest, policy.decision,
                                      rv.composite_risk_score, Uuid("exec_token", c),
                                      Uuid("exec_nonce", c))
           ctx == [IdleCall EXCEPT !.tool_name = tool_name, !.tool_args = tool_args,
                                   !.tool_args_hash = digest,
                                   !.composite_risk_score = rv.composite_risk_score,
                                   !.composite_risk_level = rv.composite_risk_level,
                                   !.policy_decision = policy.decision,
                                   !.policy_reason = policy.reason,
                                   !.require_token = policy.require_token,
                                   !.trace = <<"Started", "RiskComputed", "PolicyEvaluated">>]
       IN icall' = [icall EXCEPT ![c] = AfterPolicy(ctx, policy, routed, issued_token)]
    /\ UNCHANGED << outsideIntercept, registry, routes, invoked, icfg, verifierVars >>

\* variant of the branch that runs the tool whatever the verification
AfterVerificationIgnored(t, verification, routed) ==
    [t EXCEPT !.pc = "invoke",
              !.exec_token_verified = IF verification.valid THEN "True" ELSE "False",
              !.verify_reason = verification.reason]
\* variant of the branch that routes a failed verification without marking
\* the trace
AfterVerificationUnmarked(t, verification, routed) ==
    IF ~verification.valid
    THEN [t EXCEPT !.pc = "finish", !.exec_token_verified = "False",
                   !.verify_reason = verification.reason,
                   !.result = routed.result, !.fallback_type = routed.type,
                   !.router_calls = 1,
                   !.trace = Append(@, "TokenVerified")]
    ELSE [t EXCEPT !.pc = "invoke", !.exec_token_verified = "True",
                   !.verify_reason = verification.reason,
                   !.trace = Append(@, "TokenVerified")]
\* the branch on the verification (lines 171-181)
AfterVerification(t, verification, routed) ==
    IF ~verification.valid
    THEN [t EXCEPT !.pc = "finish", !.exec_token_verified = "False",
                   !.verify_reason = verification.reason,
                   !.fallback_used = TRUE,
                   !.fallback_reason = verification.reason,
                   !.result = routed.result, !.fallback_type = routed.type,
                   !.router_calls = 1,
                   !.trace = Append(@, "TokenVerified")]
    ELSE [t EXCEPT !.pc = "invoke", !.exec_token_verified = "True",
                   !.verify_reason = verification.reason,
                   !.trace = Append(@, "TokenVerified")]

\* verification of the issued token and the failure route (lines 169-181)
InterceptVerify(c) ==
    /\ icall[c].pc = "verify"
    /\ LET t == icall[c]
           verification == TokenVerify(verifier_secret, replay_protection, seen, t.token,
                                       t.tool_name, t.tool_args_hash)
           routed == route(routes, t.tool_name, t.tool_args, verification.reason)
       IN /\ seen' = verification.seen
          /\ icall' = [icall EXCEPT ![c] = AfterVerification(t, verification, routed)]
    /\ UNCHANGED << outsideIntercept, registry, routes, invoked, icfg, verifier_secret, replay_protection >>

\* await tool_fn(**tool_args) (lines 182, 185): the tool returns or raises;
\* an exception leaves intercept_tool_call at once
InterceptInvoke(c, raises) ==
    /\ icall[c].pc = "invoke"
    /\ invoked' = Append(invoked, [call |-> c, tool_name |-> icall[c].tool_name,
                                   tool_args |-> icall[c].tool_args])
    /\ icall' = [icall EXCEPT ![c] =
           IF raises THEN [@ EXCEPT !.pc = "raised", !.raised_by = "tool_fn",
                                    !.trace = Append(@, "ToolInvoked")]
           ELSE [@ EXCEPT !.pc = "finish", !.result = [status |-> "executed"],
                          !.trace = Append(@, "ToolInvoked")]]
    /\ UNCHANGED << outsideIntercept, registry, routes, icfg, verifierVars >>

\* tracer.end_span and exporter.export (lines 187-189): an exception of
\* export leaves intercept_tool_call
EndSpanAndExport(t, export_raises) ==
    LET ended == [t EXCEPT !.ended = TRUE]
    IN IF icfg.exporter /\ export_raises
       THEN [ended EXCEPT !.pc = "raised", !.raised_by = "exporter"]
       ELSE [ended EXCEPT !.exported = icfg.exporter, !.trace = Append(@, "Finalized")]
\* variant of the shadow scheduling without the except clause
ScheduleShadowUnguarded(t, schedule_raises) ==
    IF icfg.shadow_for_high_risk /\ t.composite_risk_level = "high"
    THEN IF schedule_raises
         THEN [t EXCEPT !.pc = "raised", !.raised_by = "schedule_shadow_lane",
                        !.shadow = "not_scheduled"]
         ELSE [t EXCEPT !.pc = "done", !.returned = t.result,
                        !.shadow_scheduled = TRUE, !.shadow = "pending"]
    ELSE [t EXCEPT !.pc = "done", !.returned = t.result]
\* schedule_shadow_lane under try/except RuntimeError, and the return (lines
\* 191-202); asyncio.create_task raises RuntimeError without a running loop
ScheduleShadow(t, schedule_raises) ==
    IF icfg.shadow_for_high_risk /\ t.composite_risk_level = "high"
    THEN IF schedule_raises
         THEN [t EXCEPT !.pc = "done", !.returned = t.result,
                        !.shadow = "not_scheduled"]
         ELSE [t EXCEPT !.pc = "done", !.returned = t.result,
                        !.shadow_scheduled = TRUE, !.shadow = "pending"]
    ELSE [t EXCEPT !.pc = "done", !.returned = t.result]

\* end_span, export, shadow scheduling and return (lines 187-202)
InterceptFinish(c, export_raises, schedule_raises) ==
    /\ icall[c].pc = "finish"
    /\ LET finalized == EndSpanAndExport(icall[c], export_raises)
       IN icall' = [icall EXCEPT ![c] =
              IF finalized.pc = "raised" THEN finalized
              ELSE ScheduleShadow(finalized, schedule_raises)]
    /\ UNCHANGED << outsideIntercept, registry, routes, invoked, icfg, verifierVars >>

\* the detached task runs run_shadow_lane once the event loop gets control,
\* which is after intercept_tool_call returned: nothing is awaited between
\* create_task and the return (shadow/lane.py lines 15-38). An exception of
\* the exporter stays in the task
ShadowRun(c, export_raises) ==
    /\ icall[c].shadow = "pending"
    /\ icall' = [icall EXCEPT ![c] =
           IF icfg.exporter /\ export_raises
           THEN [@ EXCEPT !.shadow = "failed"]
           ELSE [@ EXCEPT !.shadow = "finished", !.shadow_exported = icfg.exporter]]
    /\ UNCHANGED << outsideIntercept, registry, routes, invoked, icfg, verifierVars >>

\* ------------------------------------------------------------------ hashing of argument bundles
\* a dict is the sequence of its items in insertion order; the orders a
\* sequence of items can be inserted in
Perms(d) == {[i \in 1..Len(d) |-> d[p[i]]] : p \in Permutations(1..Len(d))}
MetaOf(d) == (CHOOSE i \in 1..Len(d) : d[i][1] = "meta")
\* the bundles with the items of d, and of its nested dict, in every order
Orderings(d) ==
    {[i \in 1..Len(t) |-> IF IsDictKey(t[i][1]) THEN <<t[i][1], m>> ELSE t[i]] :
        t \in Perms(d), m \in Perms(d[MetaOf(d)][2])}
\* {"amount": a, "to": t, "meta": {"x": x, "y": 2}} as the proposer hashes it
TransferBundles ==
    {<< <<"amount", a>>, <<"to", t>>, <<"meta", << <<"x", x>>, <<"y", 2>> >> >> >> :
        a \in {100, 200}, t \in {"acct_123", "acct_456"}, x \in {1, 2}}
\* the same shape with the text values the interceptor hashes
CallBundles ==
    {<< <<"amount", <<Word("1200.0", 1200)>> >>, <<"destination", <<t>> >>,
        <<"meta", << <<"x", <<Word("a", 0)>> >>, <<"y", <<Word("b", 0)>> >> >> >> >> :
        t \in {CapWord("acct-1", 1), Word("acct-1", 1), Word("acct-2", 2)}}
NoHashes == [fn |-> "None"]
\* tool_args_hash of two dicts
HashToolArgs(a, b) ==
    /\ hashed = NoHashes
    /\ hashed' = [fn |-> "tool_args_hash", a |-> a, b |-> b,
                  hash_a |-> tool_args_hash(a), hash_b |-> tool_args_hash(b)]
    /\ UNCHANGED << now, commitVars, verifierVars, interceptVars, tokenVars, pol,
                    storageVars, registryLog, engine, mcall, scored >>
\* args_hash of two dicts
HashCallArgs(a, b) ==
    /\ hashed = NoHashes
    /\ hashed' = [fn |-> "args_hash", a |-> a, b |-> b,
                  hash_a |-> args_hash(a), hash_b |-> args_hash(b)]
    /\ UNCHANGED << now, commitVars, verifierVars, interceptVars, tokenVars, pol,
                    storageVars, registryLog, engine, mcall, scored >>

\* ------------------------------------------------------------------ tiered execution (execution/policy.py)
ExecutionTier(name, max_cost_usd, min_confidence, max_hallucination_risk) ==
    [name |-> name, max_cost_usd |-> max_cost_usd, min_confidence |-> min_confidence,
     max_hallucination_risk |-> max_hallucination_risk]
\* TieredExecutionConfig.from_base_cost with the default tiers 2 and 3
from_base_cost(base_cost_usd, tier_1_confidence, tier_1_hallucination_risk) ==
    [base_cost_usd |-> base_cost_usd,
     tier_1 |-> ExecutionTier("tier_1", base_cost_usd, tier_1_confidence,
                              tier_1_hallucination_risk),
     tier_2 |-> ExecutionTier("tier_2", base_cost_usd * 2, Milli(750), Milli(300)),
     tier_3 |-> ExecutionTier("tier_3", base_cost_usd * 3, Milli(850), Milli(200))]
NoTier == ExecutionTier("", 0, 0, 0)
\* resolve_tier: NoTier stands for the ValueError of an unknown name
resolve_tier(config, tier_name) ==
    CASE tier_name = "tier_1" -> config.tier_1
      [] tier_name = "tier_2" -> config.tier_2
      [] tier_name = "tier_3" -> config.tier_3
      [] OTHER -> NoTier

\* hallucination.scoring.to_risk
to_risk(score) == clamp01(Scale - score)
\* hallucination.scoring.compute_hallucination_risk_score over the scores
\* _populate_hallucination_fields put on the span (NoneNum / "None" when a
\* signal is disabled or has no input)
compute_hallucination_risk_score(sc) ==
    LET components ==
            (IF sc.grounding_score # NoneNum
             THEN << <<to_risk(sc.grounding_score), 300>> >> ELSE <<>>)
            \o (IF sc.self_consistency_score # NoneNum
                THEN << <<to_risk(sc.self_consistency_score), 250>> >> ELSE <<>>)
            \o (IF sc.verifier_score # NoneNum
                THEN << <<to_risk(sc.verifier_score), 250>> >> ELSE <<>>)
            \o (IF sc.numeric_variance_score # NoneNum
                THEN << <<clamp01(sc.numeric_variance_score), 100>> >> ELSE <<>>)
            \o (IF sc.tool_claim_mismatch # "None"
                THEN << <<IF sc.tool_claim_mismatch = "True" THEN Scale ELSE 0, 100>> >>
                ELSE <<>>)
        weighted_sum == SumSeq([i \in 1..Len(components) |-> components[i][1] * components[i][2]])
        total_weight == SumSeq([i \in 1..Len(components) |-> components[i][2]])
    IN IF components = <<>> THEN NoneNum
       ELSE clamp01(weighted_sum \div total_weight)

NoSpan == [model |-> "None"]
\* the span intercept_model_call returns (interceptor.py 233-278)
ModelSpan(model, confidence, cost_usd, scores, fallback_used, gate_blocked, fallback_type, fallback_reason) ==
    [model |-> model, confidence |-> confidence, cost_usd |-> cost_usd,
     hallucination_risk_score |-> compute_hallucination_risk_score(scores),
     fallback_used |-> fallback_used, gate_blocked |-> gate_blocked,
     fallback_type |-> fallback_type, fallback_reason |-> fallback_reason,
     ended |-> TRUE]

\* TieredExecutionEngine._effective_confidence; span.confidence is the
\* explicit confidence intercept_model_call stored
effective_confidence(explicit_confidence, span) ==
    IF explicit_confidence # NoneNum THEN clamp01(explicit_confidence)
    ELSE IF span.confidence # NoneNum THEN clamp01(span.confidence)
    ELSE IF span.hallucination_risk_score # NoneNum
    THEN clamp01(Scale - span.hallucination_risk_score)
    ELSE NoneNum

\* variant of the acceptance test that counts a cost breach
policy_breachedOnCost(cost_breached, confidence_breached, hallucination_breached) ==
    cost_breached \/ confidence_breached \/ hallucination_breached
\* the negation of the acceptance test of line 156
policy_breached(cost_breached, confidence_breached, hallucination_breached) ==
    confidence_breached \/ hallucination_breached

NoDecision == [tier |-> ""]
NoResponse == "None"
IdleExecute ==
    [pc |-> "idle", input |-> [tier_name |-> ""], tier |-> NoTier,
     response |-> NoResponse, decision |-> NoDecision,
     mcp_span |-> NoSpan, fallback_span |-> NoSpan, error |-> "None"]

\* the arguments of execute and what the callables it is given do
ExecuteInputs ==
    [tier_name : {"tier_1", "tier_2", "tier_3", "tier_4"},
     tier_1 : {<<Milli(500), Scale>>, <<Milli(800), Scale>>, <<Milli(950), Milli(200)>>},
     mcp : {"neither", "mcp_response", "mcp_call", "mcp_call_raises"},
     confidence : {NoneNum, 0, Milli(200), Milli(900), Scale},
     scores : [grounding_score : {NoneNum, 0, Scale},
               self_consistency_score : {NoneNum},
               verifier_score : {NoneNum, Scale},
               numeric_variance_score : {NoneNum, 0},
               tool_claim_mismatch : {"None", "True"}],
     cost_usd : {5, 25, 40},
     deterministic_fallback : {"None", "returns_text", "returns_None"}]
\* the budget of tier 1 the costs are measured against
BaseCostUsd == 2 * 5

\* execute up to the first return or the call of the fallback (lines 131-187)
ExecuteBegin(inp) ==
    /\ engine.pc = "idle"
    /\ LET config == from_base_cost(BaseCostUsd, inp.tier_1[1], inp.tier_1[2])
           tier == resolve_tier(config, inp.tier_name)
           mcp_result == IF inp.mcp = "mcp_response" THEN "World" ELSE "Called"
           mcp_span == ModelSpan("gpt-4o", inp.confidence, inp.cost_usd, inp.scores,
                                 FALSE, FALSE, "None", "None")
           effective == effective_confidence(inp.confidence, mcp_span)
           cost_breached == mcp_span.cost_usd > tier.max_cost_usd
           confidence_breached == effective = NoneNum \/ effective < tier.min_confidence
           hallucination_risk == IF mcp_span.hallucination_risk_score # NoneNum
                                 THEN mcp_span.hallucination_risk_score ELSE Scale
           hallucination_breached == hallucination_risk > tier.max_hallucination_risk
           fallback_reason ==
               IF confidence_breached /\ hallucination_breached
               THEN "low_confidence+high_hallucination"
               ELSE IF confidence_breached THEN "low_confidence"
               ELSE "high_hallucination"
           started == [engine EXCEPT !.input = inp, !.tier = tier]
       IN engine' =
              IF tier = NoTier \/ inp.mcp = "neither"
              THEN [started EXCEPT !.pc = "raised", !.error = "ValueError"]
              ELSE IF inp.mcp = "mcp_call_raises"
              THEN [started EXCEPT !.pc = "raised", !.error = "mcp_call"]
              ELSE IF ~policy_breached(cost_breached, confidence_breached, hallucination_breached)
              THEN [started EXCEPT
                       !.pc = "done", !.response = mcp_result, !.mcp_span = mcp_span,
                       !.decision = [tier |-> tier.name, accepted |-> TRUE,
                                     response_source |-> "mcp",
                                     cost_breached |-> cost_breached,
                                     confidence_breached |-> FALSE,
                                     hallucination_breached |-> FALSE,
                                     fallback_used |-> FALSE,
                                     fallback_reason |->
                                         IF cost_breached THEN "cost_breached" ELSE "None"]]
              ELSE [started EXCEPT
                       !.pc = IF inp.deterministic_fallback = "None" THEN "done" ELSE "fallback",
                       !.response = NoResponse, !.mcp_span = mcp_span,
                       !.decision = [tier |-> tier.name, accepted |-> FALSE,
                                     response_source |-> "none",
                                     cost_breached |-> cost_breached,
                                     confidence_breached |-> confidence_breached,
                                     hallucination_breached |-> hallucination_breached,
                                     fallback_used |-> FALSE,
                                     fallback_reason |-> fallback_reason]]
    /\ UNCHANGED << now, commitVars, verifierVars, interceptVars, tokenVars, pol,
                    storageVars, registryLog, hashed, mcall, scored >>

\* the deterministic fallback and its span (lines 189-213):
\* intercept_model_call raises ValueError when it is given neither a call nor
\* a response, which is what a fallback that returned None leaves it with
\* (interceptor.py 230-231)
ExecuteFallback ==
    /\ engine.pc = "fallback"
    /\ LET fallback_response ==
               IF engine.input.deterministic_fallback = "returns_text"
               THEN "deterministic" ELSE NoResponse
           fallback_span == ModelSpan("gpt-4o:deterministic_fallback", Scale, 0,
                                      engine.input.scores, TRUE, TRUE, "deterministic",
                                      engine.decision.fallback_reason)
       IN engine' =
              IF fallback_response = NoResponse
              THEN [engine EXCEPT !.pc = "raised", !.error = "ValueError"]
              ELSE [engine EXCEPT
                       !.pc = "done", !.response = fallback_response,
                       !.fallback_span = fallback_span,
                       !.decision = [@ EXCEPT !.response_source = "deterministic_fallback",
                                              !.fallback_used = TRUE]]
    /\ UNCHANGED << now, commitVars, verifierVars, interceptVars, tokenVars, pol,
                    storageVars, registryLog, hashed, mcall, scored >>

\* ------------------------------------------------------------------ the composite scores computed on their own
NoScore == [fn |-> "None"]
\* component values: absent, the ends of the range, the two level bounds,
\* and one value on each side of the range, which clamp01 brings back
ComponentValues == {NoneNum, 0, Milli(200), Milli(350), Scale, 0 - Milli(500), 2 * Scale}
RiskComponents == [{RiskWeights[i].key : i \in 1..Len(RiskWeights)} -> ComponentValues]
\* the smaller set the proposal signals are drawn from
SignalValues == {NoneNum, 0, Milli(200), Milli(500), Scale, 2 * Scale}
ProposalComponents == [{ProposalWeights[i].key : i \in 1..Len(ProposalWeights)} -> SignalValues]
\* composite_risk_score(components) of risk/scoring.py
ScoreRisk(components) ==
    /\ scored = NoScore
    /\ LET result == composite_risk_score(components)
       IN scored' = [fn |-> "composite_risk_score", components |-> components,
                     weights |-> RiskWeights, score |-> result.score,
                     level |-> result.level]
    /\ UNCHANGED << now, commitVars, verifierVars, interceptVars, tokenVars, pol,
                    storageVars, registryLog, engine, hashed, mcall >>
\* composite_score(signals) of proposal_commit/scoring.py, which has no level
ScoreProposal(signals) ==
    /\ scored = NoScore
    /\ scored' = [fn |-> "composite_score", components |-> signals,
                  weights |-> ProposalWeights, score |-> composite_score(signals),
                  level |-> "None"]
    /\ UNCHANGED << now, commitVars, verifierVars, interceptVars, tokenVars, pol,
                    storageVars, registryLog, engine, hashed, mcall >>
\* ------------------------------------------------------------------ model-call interception (core/interceptor.py 204-284)
\* one intercept_model_call: what it was given, the calls it has made on the
\* tracer, the wrapped callable and the exporter, in order (events), and how
\* it left
IdleModelCall ==
    [pc |-> "idle", call |-> "None", response |-> "None", exporter |-> FALSE,
     return_span |-> FALSE, events |-> <<>>, result |-> "None", pending |-> "None",
     returned |-> "None", error |-> "None", gate_blocked |-> FALSE]
\* span.gate_blocked (lines 246-250): the argument when it is given, else
\* whether the confidence is under the gate threshold, both being given
span_gate_blocked(gate_blocked, confidence, confidence_gate_threshold) ==
    IF gate_blocked # "None" THEN gate_blocked = "True"
    ELSE /\ confidence # NoneNum /\ confidence_gate_threshold # NoneNum
         /\ confidence < confidence_gate_threshold
\* call is absent, returns, raises an Exception, or is cancelled while awaited
\* (asyncio.CancelledError is a BaseException); response is absent or given;
\* the interceptor has an exporter or none
ModelCallInputs ==
    [call : {"None", "returns", "raises", "cancelled"}, response : {"None", "text"},
     exporter : BOOLEAN, return_span : BOOLEAN,
     gate_blocked : {"None", "True", "False"}, confidence : {NoneNum, Milli(300), Milli(900)},
     confidence_gate_threshold : {NoneNum, Milli(500)}]
\* lines 230-252: the argument check, then start_span and the span's fields
ModelCallBegin(inp) ==
    /\ mcall.pc = "idle"
    /\ mcall' =
           IF inp.call = "None" /\ inp.response = "None"
           THEN [mcall EXCEPT !.pc = "raised", !.error = "ValueError",
                              !.call = inp.call, !.response = inp.response,
                              !.exporter = inp.exporter, !.return_span = inp.return_span]
           ELSE [mcall EXCEPT !.pc = "try", !.events = <<"start_span">>,
                              !.call = inp.call, !.response = inp.response,
                              !.exporter = inp.exporter, !.return_span = inp.return_span,
                              !.gate_blocked =
                                  span_gate_blocked(inp.gate_blocked, inp.confidence,
                                                    inp.confidence_gate_threshold)]
    /\ UNCHANGED << now, commitVars, verifierVars, interceptVars, tokenVars, pol,
                    storageVars, registryLog, engine, hashed, scored >>
\* lines 254-271: result = response, replaced by what the awaited call returns;
\* an Exception goes to the except clause, a BaseException leaves the function
ModelCallTry ==
    /\ mcall.pc = "try"
    /\ mcall' =
           CASE mcall.call = "None" ->
                    [mcall EXCEPT !.pc = "finalize", !.result = mcall.response]
             [] mcall.call = "returns" ->
                    [mcall EXCEPT !.pc = "finalize", !.result = "call_result",
                                  !.events = Append(@, "call")]
             [] mcall.call = "raises" ->
                    [mcall EXCEPT !.pc = "except", !.pending = "call_error",
                                  !.events = Append(@, "call")]
             [] mcall.call = "cancelled" ->
                    [mcall EXCEPT !.pc = "raised", !.error = "CancelledError",
                                  !.events = Append(@, "call")]
    /\ UNCHANGED << now, commitVars, verifierVars, interceptVars, tokenVars, pol,
                    storageVars, registryLog, engine, hashed, scored >>
\* tracer.end_span, then exporter.export when there is an exporter
EndSpanThenExport(events, exporter) ==
    IF exporter THEN events \o <<"end_span", "export">> ELSE Append(events, "end_span")
\* lines 273-278: end_span, export, return; an exception of export is caught
\* by the except clause of the same try
ModelCallFinalize(export_raises) ==
    /\ mcall.pc = "finalize"
    /\ mcall' =
           IF mcall.exporter /\ export_raises
           THEN [mcall EXCEPT !.pc = "except", !.pending = "export_error",
                              !.events = EndSpanThenExport(@, mcall.exporter)]
           ELSE [mcall EXCEPT !.pc = "returned",
                              !.events = EndSpanThenExport(@, mcall.exporter),
                              !.returned = IF mcall.return_span THEN "result_and_span"
                                           ELSE "result"]
    /\ UNCHANGED << now, commitVars, verifierVars, interceptVars, tokenVars, pol,
                    storageVars, registryLog, engine, hashed, scored >>
\* lines 279-284: cost, end_span, export, raise; an exception of export
\* here is the one that leaves the function
ModelCallExcept(export_raises) ==
    /\ mcall.pc = "except"
    /\ mcall' = [mcall EXCEPT
                    !.pc = "raised",
                    !.events = EndSpanThenExport(@, mcall.exporter),
                    !.error = IF mcall.exporter /\ export_raises
                              THEN "export_error" ELSE mcall.pending]
    /\ UNCHANGED << now, commitVars, verifierVars, interceptVars, tokenVars, pol,
                    storageVars, registryLog, engine, hashed, scored >>
\* ------------------------------------------------------------------ direct use of TokenIssuer / TokenVerifier

ExecTool == "initiate_wire_transfer"
\* what a verify call is made for: the issued tool and args, another tool,
\* other args
ExecRequests ==
    { [tool_name |-> ExecTool, tool_args |-> CallArgsLower],
      [tool_name |-> "freeze_payment_card", tool_args |-> CallArgsLower],
      [tool_name |-> ExecTool, tool_args |-> CallArgsOther] }

\* a token whose payload was altered after signing
TamperedExec(token) ==
    [token EXCEPT !.payload = [@ EXCEPT !.expires_at = @ + 10 * MsPerTick]]
PresentableExecTokens ==
    exec_issued \cup {TamperedExec(t) : t \in exec_issued} \cup {GarbageExecToken}

\* bytes that are not JSON, signed with the issuer's key
UnparsableExecToken ==
    LET payload_raw == [NoExecPayload EXCEPT !.tool_name = NotJsonText]
    IN [decodable |-> TRUE, payload |-> payload_raw,
        sig |-> hmac_sha256(ExecSecret, payload_raw)]
\* a verify call for another tool with other args
OtherToolOtherArgs == [tool_name |-> "freeze_payment_card", tool_args |-> CallArgsOther]
\* TokenIssuer.issue called by a client of the library
ExecIssueUpTo(limit, tool_name, tool_args) ==
    /\ exec_issues < limit
    /\ exec_issues' = exec_issues + 1
    /\ exec_issued' = exec_issued \cup
           {TokenIssue(Uuid("trace", exec_issues + 1), tool_name, args_hash(tool_args),
                       "ALLOW", 0, Uuid("exec_token", exec_issues + 1),
                       Uuid("exec_nonce", exec_issues + 1))}
    /\ UNCHANGED << outsideToken, vlog, verifierVars >>

ExecIssue(tool_name, tool_args) == ExecIssueUpTo(MaxExecIssues, tool_name, tool_args)

\* TokenVerifier.verify called by a client of the library; vlog keeps the
\* calls and their results
ExecVerify(token, tool_name, tool_args) ==
    /\ Len(vlog) < MaxVerifies
    /\ LET verification == TokenVerify(verifier_secret, replay_protection, seen, token,
                                       tool_name, args_hash(tool_args))
       IN /\ seen' = verification.seen
          /\ vlog' = Append(vlog, [kind |-> "execution", token |-> token,
                                   tool_name |-> tool_name,
                                   tool_args_hash |-> args_hash(tool_args),
                                   at |-> now, valid |-> verification.valid,
                                   reason |-> verification.reason])
    /\ UNCHANGED << outsideToken, exec_issued, exec_issues, verifier_secret, replay_protection >>

\* CommitTokenManager.verify called by a client of the library
ManagerVerify(token) ==
    /\ Len(vlog) < MaxVerifies
    /\ LET verification == CommitTokenVerify(token)
       IN vlog' = Append(vlog, [kind |-> "commit", token |-> token, tool_name |-> "",
                                tool_args_hash |-> NoneHash, at |-> now,
                                valid |-> verification.valid,
                                reason |-> verification.reason,
                                payload |-> verification.payload])
    /\ UNCHANGED << now, commitVars, verifierVars, interceptVars, exec_issued, exec_issues,
                    pol, storageVars, libVars >>

\* ------------------------------------------------------------------ direct use of PolicyEngine
\* scores around every threshold of the two configurations
PolicyScores ==
    { 0, Milli(199), Milli(200), Milli(201), Milli(349), Milli(350), Milli(351),
      Milli(499), Milli(500), Milli(501), Scale }
StrictPolicyConfig ==
    [policy_id |-> "strict", policy_version |-> "1.0.0",
     high_block_threshold |-> Milli(201), high_review_threshold |-> Milli(199),
     medium_review_threshold |-> Milli(350)]
PolicyConfigs == {DefaultPolicyConfig, StrictPolicyConfig}
NoPolicyResult == PolicyResult("", "", DefaultPolicyConfig, 0, FALSE)

PolicyEvaluate ==
    /\ ~pol.evaluated
    /\ pol' = [pol EXCEPT !.evaluated = TRUE,
                          !.result = evaluate(pol.cfg, pol.tool_profile, pol.score)]
    /\ UNCHANGED << now, commitVars, verifierVars, interceptVars, tokenVars, storageVars, libVars >>

\* ------------------------------------------------------------------ specifications
vars == << now, commitVars, verifierVars, interceptVars, tokenVars, pol, storageVars, libVars >>

\* the stores, the ledger and the tasks of a fresh DemoToolServer
FreshLedger ==
    /\ baseline = [t \in {TransferTool} |-> NoneHash]
    /\ proposals = {} /\ commits = {} /\ nonces = {}
    /\ ledger = <<>> /\ issued = {} /\ direct_issues = 0
    /\ ptask = [q \in Proposers |-> IdlePropose]
    /\ ctask = [p \in Committers |-> IdleCommit]
    /\ effects = <<>> /\ verified_ok = {}
    /\ ncall = [k \in NonceCallers |-> IdleNonceCall]
    /\ FreshRegistryLog
    /\ engine = IdleExecute
    /\ hashed = NoHashes
    /\ mcall = IdleModelCall
    /\ scored = NoScore
FreshServer == FreshLedger /\ pg = FreshPg(TRUE)
\* a fresh TokenVerifier() and MCPInterceptor with the demo registry
FreshInterceptor ==
    /\ seen = {} /\ verifier_secret = ExecSecret /\ replay_protection = TRUE
    /\ registry = DemoRegistry /\ routes = {}
    /\ icall = [c \in Calls |-> IdleCall] /\ invoked = <<>>
    /\ icfg = DefaultInterceptorConfig
FreshTokens == exec_issued = {} /\ exec_issues = 0 /\ vlog = <<>>
FreshPolicy ==
    pol = [tool_profile |-> ToolProfile("cancel_shipment", "LOW", FALSE, FALSE, "LOW"),
           score |-> 0, cfg |-> DefaultPolicyConfig, evaluated |-> FALSE,
           result |-> NoPolicyResult]

ClockTick == Tick /\ UNCHANGED << commitVars, verifierVars, interceptVars, tokenVars, pol, storageVars, libVars >>

\* ToolProposer.propose_transfer_funds, one call at a time
ProposeStep(prompts) ==
    \E q \in Proposers :
        /\ \A r \in Proposers \ {q} : ptask[r].pc \in {"idle", "done"}
        /\ \/ \E amount \in {100}, to \in Accounts, prompt \in prompts :
                  ProposeBegin(q, amount, to, prompt)
           \/ ProposeSetBaseline(q)
           \/ ProposeSave(q)
           \/ ProposeIssue(q)

IssueStep ==
    \E proposal_id \in ProposalIds, tool_name \in ToolNames, amount \in {100},
       to \in Accounts :
        DirectIssue(proposal_id, tool_name, amount, to)

\* DemoToolServer.transfer_funds_commit, any number of calls interleaved
CommitStep ==
    \E p \in Committers :
        \/ \E proposal_id \in ProposalIds \cup {UnknownProposal},
              token \in PresentableTokens, amount \in Amounts, to \in Accounts :
               CommitBegin(p, proposal_id, token, amount, to)
        \/ VerifyToken(p)
        \/ VerifyNonce(p)
        \/ CommitExecute(p)
        \/ CommitRecord(p)

\* SpecCommit: proposals and concurrent commits against one server
CommitPrompts == {PromptA, PromptB}
CommitInit ==
    /\ now = 0
    /\ block_threshold = DefaultBlockThreshold
    /\ FreshServer /\ FreshInterceptor /\ FreshTokens /\ FreshPolicy
CommitNext ==
    \/ ClockTick
    \/ ProposeStep(CommitPrompts)
    \/ CommitStep
SpecCommit == CommitInit /\ [][CommitNext]_vars

\* SpecIssue: one proposal, tokens signed directly with the server's secret,
\* and concurrent commits
IssueInit ==
    /\ now = 0
    /\ block_threshold \in {DefaultBlockThreshold, Milli(150)}
    /\ FreshServer /\ FreshInterceptor /\ FreshTokens /\ FreshPolicy
IssueNext ==
    \/ ClockTick
    \/ /\ \A q \in Proposers : q > 1 => ptask[q].pc = "idle"
       /\ ptask[1].pc # "done"
       /\ ProposeStep({PromptA})
      
    \/ IssueStep
    \/ CommitStep
SpecIssue == IssueInit /\ [][IssueNext]_vars

\* SpecAudit: one proposal and concurrent commits whose record_commit may fail
\* or be cancelled
AuditStep ==
    \/ CommitStep
    \/ \E p \in Committers : CommitRecordAborted(p)
AuditNext ==
    \/ ClockTick
    \/ /\ \A q \in Proposers : q > 1 => ptask[q].pc = "idle"
       /\ ptask[1].pc # "done"
       /\ ProposeStep({PromptA})
    \/ AuditStep
SpecAudit == IssueInit /\ [][AuditNext]_vars

\* SpecNonce: concurrent nonce_seen calls on each storage backend
NonceInit ==
    /\ now = 0
    /\ block_threshold = DefaultBlockThreshold
    /\ FreshLedger /\ FreshInterceptor /\ FreshTokens /\ FreshPolicy
    /\ pg \in {FreshPg(unique) : unique \in BOOLEAN}
NonceStep ==
    \E k \in NonceCallers :
        \/ \E token \in NonceTokens : MemNonceSeen(k, token)
        \/ \E token \in NonceTokens : PgBegin(k, token)
        \/ PgDelete(k)
        \/ PgSelect(k)
        \/ PgInsert(k)
        \/ PgCommit(k)
NonceNext == ClockTick \/ NonceStep
SpecNonce == NonceInit /\ [][NonceNext]_vars

\* SpecServers: proposals committed through DemoToolServer.transfer_funds_commit
\* and through RealWorldMCPServer._execute_high_risk, on one storage
HighRiskStep ==
    \E p \in Committers :
        \/ \E q \in Proposers : HighRiskBegin(p, q)
        \/ VerifyToken(p)
        \/ VerifyNonce(p)
        \/ HighRiskExecute(p)
        \/ HighRiskRecord(p)
ServersNext ==
    \/ ClockTick
    \/ ProposeStep({PromptA})
    \/ CommitStep
    \/ HighRiskStep
SpecServers == CommitInit /\ [][ServersNext]_vars

\* SpecPropose: proposals made one after the other, under block thresholds
\* that include the scores the proposals get
ProposalScores ==
    {composite_score(ProposalSignals(prompt, b)) :
        prompt \in Prompts, b \in {NoneHash, prompt_hash(PromptA)}}
ProposeInit ==
    /\ now = 0
    /\ block_threshold \in {DefaultBlockThreshold, Milli(150)} \cup ProposalScores
    /\ FreshServer /\ FreshInterceptor /\ FreshTokens /\ FreshPolicy
ProposeNext == ProposeStep(Prompts)
SpecPropose == ProposeInit /\ [][ProposeNext]_vars

\* SpecIntercept: intercept_tool_call against a router and a verifier chosen
\* at construction
InterceptInit ==
    /\ now = 0
    /\ block_threshold = DefaultBlockThreshold
    /\ FreshServer /\ FreshTokens /\ FreshPolicy
    /\ seen = {} /\ replay_protection = TRUE
    /\ verifier_secret \in ExecSecrets
    /\ registry = DemoRegistry
    /\ routes \in {{}, CallTools}
    /\ icall = [c \in Calls |-> IdleCall] /\ invoked = <<>>
    /\ icfg = DefaultInterceptorConfig
InterceptStep ==
    \E c \in Calls :
        \/ \E tool_name \in CallTools, tool_args \in CallArgs, sig \in RiskSignals :
               InterceptBegin(c, tool_name, tool_args, sig)
        \/ InterceptVerify(c)
        \/ \E raises \in BOOLEAN : InterceptInvoke(c, raises)
        \/ \E export_raises \in BOOLEAN, schedule_raises \in BOOLEAN :
               InterceptFinish(c, export_raises, schedule_raises)
InterceptNext ==
    \/ ClockTick
    \/ InterceptStep
SpecIntercept == InterceptInit /\ [][InterceptNext]_vars

\* SpecFinalize: intercept_tool_call with or without an exporter and with
\* either value of shadow_for_high_risk, and the shadow tasks it leaves behind
FinalizeInit ==
    /\ now = 0
    /\ block_threshold = DefaultBlockThreshold
    /\ FreshServer /\ FreshTokens /\ FreshPolicy
    /\ seen = {} /\ replay_protection = TRUE
    /\ verifier_secret \in ExecSecrets
    /\ registry = DemoRegistry
    /\ routes = CallTools
    /\ icall = [c \in Calls |-> IdleCall] /\ invoked = <<>>
    /\ icfg \in [exporter : BOOLEAN, shadow_for_high_risk : BOOLEAN]
FinalizeStep ==
    \/ InterceptStep
    \/ \E c \in Calls, export_raises \in BOOLEAN : ShadowRun(c, export_raises)
FinalizeNext == FinalizeStep
SpecFinalize == FinalizeInit /\ [][FinalizeNext]_vars

\* SpecRegistry: register and get on a ToolRegistry that starts empty
RegistryInit ==
    /\ now = 0
    /\ block_threshold = DefaultBlockThreshold
    /\ FreshServer /\ FreshTokens /\ FreshPolicy
    /\ seen = {} /\ verifier_secret = ExecSecret /\ replay_protection = TRUE
    /\ registry = {} /\ routes = {}
    /\ icall = [c \in Calls |-> IdleCall] /\ invoked = <<>>
    /\ icfg = DefaultInterceptorConfig
RegistryStep ==
    \/ \E profile \in RegistryProfiles : RegistryRegister(profile)
    \/ \E tool_name \in RegistryNames : RegistryGet(tool_name)
RegistryNext == RegistryStep
SpecRegistry == RegistryInit /\ [][RegistryNext]_vars

\* SpecEngine: one TieredExecutionEngine.execute over an interceptor without
\* exporter
EngineInit == RegistryInit
EngineStep ==
    \/ engine.pc = "idle" /\ \E inp \in ExecuteInputs : ExecuteBegin(inp)
    \/ ExecuteFallback
EngineNext == EngineStep
SpecEngine == EngineInit /\ [][EngineNext]_vars

\* SpecHash: the two args hashes over dicts and their reorderings, and over
\* pairs of different dicts
HashStep ==
    \/ /\ hashed = NoHashes
       /\ \E d \in TransferBundles :
              \E a \in Orderings(d), b \in Orderings(d) \cup TransferBundles : HashToolArgs(a, b)
    \/ /\ hashed = NoHashes
       /\ \E d \in CallBundles :
              \E a \in Orderings(d), b \in Orderings(d) \cup CallBundles : HashCallArgs(a, b)
HashNext == HashStep
SpecHash == RegistryInit /\ [][HashNext]_vars

\* SpecToken: TokenIssuer and TokenVerifier used directly
TokenInit ==
    /\ now = 0
    /\ block_threshold = DefaultBlockThreshold
    /\ FreshServer /\ FreshTokens /\ FreshPolicy
    /\ seen = {} /\ replay_protection \in BOOLEAN
    /\ verifier_secret \in ExecSecrets
    /\ registry = DemoRegistry /\ routes = {}
    /\ icall = [c \in Calls |-> IdleCall] /\ invoked = <<>>
    /\ icfg = DefaultInterceptorConfig
TokenStep ==
    \/ ExecIssue(ExecTool, CallArgsUpper)
    \/ \E token \in PresentableExecTokens, request \in ExecRequests :
           ExecVerify(token, request.tool_name, request.tool_args)
TokenNext ==
    \/ ClockTick
    \/ TokenStep
SpecToken == TokenInit /\ [][TokenNext]_vars

\* SpecExpiry: tokens of both kinds issued and verified as the clock advances
ExpiryStep ==
    \/ ExecIssue(ExecTool, CallArgsUpper)
    \/ \E token \in PresentableExecTokens : ExecVerify(token, ExecTool, CallArgsLower)
    \/ DirectIssue(UnknownProposal, TransferTool, 100, "acct_123")
    \/ \E token \in PresentableTokens : ManagerVerify(token)
ExpiryNext == ClockTick \/ ExpiryStep
SpecExpiry == TokenInit /\ [][ExpiryNext]_vars

\* SpecVerify: both verify functions given well-formed, altered, malformed
\* and unparsable tokens
VerifyStep ==
    \/ ExecIssue(ExecTool, CallArgsUpper)
    \/ \E token \in exec_issued, request \in ExecRequests \cup {OtherToolOtherArgs} :
           ExecVerify(token, request.tool_name, request.tool_args)
    \/ \E token \in (PresentableExecTokens \ exec_issued) \cup {UnparsableExecToken} :
           ExecVerify(token, ExecTool, CallArgsLower)
    \/ DirectIssue(UnknownProposal, TransferTool, 100, "acct_123")
    \/ \E token \in PresentableTokens \cup {UnparsableToken} : ManagerVerify(token)
VerifyNext == ClockTick \/ VerifyStep
SpecVerify == TokenInit /\ [][VerifyNext]_vars
\* SpecGc: a TokenVerifier and an InMemoryStorage whose entries expire while
\* further calls are made
GcCallers == 1..MaxGcCallers
GcInit ==
    /\ now = 0
    /\ block_threshold = DefaultBlockThreshold
    /\ baseline = [t \in {TransferTool} |-> NoneHash]
    /\ proposals = {} /\ commits = {} /\ nonces = {}
    /\ ledger = <<>> /\ issued = {} /\ direct_issues = 0
    /\ ptask = [q \in Proposers |-> IdlePropose]
    /\ ctask = [p \in Committers |-> IdleCommit]
    /\ effects = <<>> /\ verified_ok = {}
    /\ ncall = [k \in GcCallers |-> IdleNonceCall]
    /\ FreshRegistryLog /\ engine = IdleExecute /\ hashed = NoHashes /\ mcall = IdleModelCall
    /\ scored = NoScore
    /\ pg = FreshPg(TRUE)
    /\ FreshTokens /\ FreshPolicy
    /\ seen = {} /\ replay_protection \in BOOLEAN /\ verifier_secret = ExecSecret
    /\ registry = DemoRegistry /\ routes = {}
    /\ icall = [c \in Calls |-> IdleCall] /\ invoked = <<>>
    /\ icfg = DefaultInterceptorConfig
GcStep ==
    \/ ExecIssueUpTo(MaxGcIssues, ExecTool, CallArgsUpper)
    \/ \E token \in exec_issued : ExecVerify(token, ExecTool, CallArgsLower)
    \/ \E k \in GcCallers, token \in NonceTokens : MemNonceSeen(k, token)
GcNext == ClockTick \/ GcStep
SpecGc == GcInit /\ [][GcNext]_vars
\* SpecModelCall: one intercept_model_call with every kind of callable,
\* response and exporter
ModelCallStep ==
    \/ mcall.pc = "idle" /\ \E inp \in ModelCallInputs : ModelCallBegin(inp)
    \/ ModelCallTry
    \/ \E export_raises \in BOOLEAN : ModelCallFinalize(export_raises)
    \/ \E export_raises \in BOOLEAN : ModelCallExcept(export_raises)
ModelCallNext == ModelCallStep
SpecModelCall == RegistryInit /\ [][ModelCallNext]_vars
\* SpecScore: the two composite scores over every subset of present components
ScoreStep ==
    \/ scored = NoScore /\ \E components \in RiskComponents : ScoreRisk(components)
    \/ scored = NoScore /\ \E signals \in ProposalComponents : ScoreProposal(signals)
ScoreNext == ScoreStep
SpecScore == RegistryInit /\ [][ScoreNext]_vars
\* SpecConsume: a run that uses either the TokenVerifier or the propose/commit
\* server, with well-formed and failing verifications of both; the two have
\* no state in common
ConsumeNext ==
    \/ ClockTick
    \/ FreshLedger /\ TokenStep
    \/ FreshTokens /\ seen = {} /\ ProposeStep(CommitPrompts)
    \/ FreshTokens /\ seen = {} /\ CommitStep
SpecConsume == CommitInit /\ [][ConsumeNext]_vars
\* SpecOverlap: propose_transfer_funds calls that overlap, each storage call
\* being a point where another call runs
OverlapStep ==
    \E q \in Proposers :
        \/ \E amount \in {100}, to \in Accounts, prompt \in Prompts :
               ProposeBegin(q, amount, to, prompt)
        \/ ProposeSetBaseline(q)
        \/ ProposeSave(q)
        \/ ProposeIssue(q)
OverlapNext == ClockTick \/ OverlapStep
SpecOverlap == CommitInit /\ [][OverlapNext]_vars
\* SpecPolicy: PolicyEngine.evaluate over profiles, scores and configurations
PolicyInit ==
    /\ now = 0
    /\ block_threshold = DefaultBlockThreshold
    /\ FreshServer /\ FreshInterceptor /\ FreshTokens
    /\ pol \in [tool_profile : {ToolProfile("tool", c, i, FALSE, "None") :
                                   c \in Criticalities, i \in BOOLEAN},
                score : PolicyScores, cfg : PolicyConfigs, evaluated : {FALSE},
                result : {NoPolicyResult}]
PolicyNext == PolicyEvaluate
SpecPolicy == PolicyInit /\ [][PolicyNext]_vars

\* SpecThresholds: PolicyEngine(PolicyConfig(...)) with every placing of the
\* three thresholds, the review threshold above the block threshold included
ThresholdValues == {0, Milli(200), Milli(350), Milli(500), Scale}
ThresholdConfigs ==
    [policy_id : {"risk-bound-exec-v2"}, policy_version : {"2.0.0"},
     high_block_threshold : ThresholdValues, high_review_threshold : ThresholdValues,
     medium_review_threshold : ThresholdValues]
ThresholdsInit ==
    /\ now = 0
    /\ block_threshold = DefaultBlockThreshold
    /\ FreshServer /\ FreshInterceptor /\ FreshTokens
    /\ pol \in [tool_profile : {ToolProfile("tool", c, FALSE, FALSE, "None") :
                                   c \in Criticalities},
                score : PolicyScores, cfg : ThresholdConfigs, evaluated : {FALSE},
                result : {NoPolicyResult}]
ThresholdsNext == PolicyEvaluate
SpecThresholds == ThresholdsInit /\ [][ThresholdsNext]_vars
\* ------------------------------------------------------------------ properties: propose/commit
\* the tick at which a commit token expires
ExpiryTick(token) == FromTimestamp(token.payload.expires_at)
\* verify_commit has returned to the commit call
Returned(t) == t.pc \in {"verified", "record", "done"}
ToolMatches(t) == t.tool_name = t.token.payload.tool_name
ArgsMatch(t) == tool_args_hash(ToolArgs(t.amount, t.to)) = t.token.payload.tool_args_hash
\* the call presents an issued token for the proposal, tool and args it was issued for
ForOwnProposal(t) ==
    /\ t.token \in issued
    /\ t.proposal_id = t.token.payload.proposal_id
    /\ ToolMatches(t) /\ ArgsMatch(t)
LedgerRecords(proposal_id) == {i \in 1..Len(ledger) : ledger[i].proposal_id = proposal_id}
Decisions(proposal_id) == {r.decision : r \in get_proposal(proposal_id)}

\* C1: over all interleavings of the commit calls and the clock, the side
\* effect (the ledger append) is executed at most once per commit token.
AtMostOnceCommit ==
    \A i, j \in 1..Len(effects) : effects[i].nonce = effects[j].nonce => i = j

MismatchAlwaysArgsHashMismatch ==
    \A p \in Committers :
        LET t == ctask[p]
        IN (Returned(t) /\ t.token \in issued /\ now < ExpiryTick(t.token)
              /\ (~ToolMatches(t) \/ ~ArgsMatch(t))) =>
               ~t.ok /\ t.reason = "args_hash_mismatch"
\* C8 amended: a commit for the allowed proposal the token was issued for,
\* presenting the unexpired token with another tool name or other args, is
\* rejected with args_hash_mismatch; no commit with a mismatch returns ok or
\* executes the side effect.
ArgsBinding ==
    \A p \in Committers :
        LET t == ctask[p]
        IN /\ (Returned(t) /\ t.token \in issued /\ now < ExpiryTick(t.token)
                 /\ t.proposal_id = t.token.payload.proposal_id
                 /\ Decisions(t.proposal_id) = {"allow"}
                 /\ (~ToolMatches(t) \/ ~ArgsMatch(t))) =>
                  ~t.ok /\ t.reason = "args_hash_mismatch"
           /\ (Returned(t) /\ t.ok) => ToolMatches(t) /\ ArgsMatch(t)
           /\ (t.pc # "idle" /\ (~ToolMatches(t) \/ ~ArgsMatch(t))) =>
                  \A i \in 1..Len(effects) : effects[i].task # p
MismatchRejected ==
    \E p, q \in Committers :
        /\ ctask[p].pc = "done" /\ ctask[p].token \in issued
        /\ ~ToolMatches(ctask[p]) /\ ArgsMatch(ctask[p])
        /\ ctask[p].reason = "args_hash_mismatch"
        /\ ctask[q].pc = "done" /\ ctask[q].token \in issued
        /\ ToolMatches(ctask[q]) /\ ~ArgsMatch(ctask[q])
        /\ ctask[q].reason = "args_hash_mismatch"
        /\ effects = <<>>

\* C10: a proposal saved with decision block is never committed: verify_commit
\* returns unknown_proposal for it whatever the token, no commit row with
\* decision committed references it and no side effect is executed for it.
BlockedNeverCommitted ==
    \A id \in ProposalIds :
        "block" \in Decisions(id) =>
            /\ \A c \in commits : c.proposal_id = id => c.decision # "committed"
            /\ LedgerRecords(id) = {}
            /\ \A i \in 1..Len(effects) : effects[i].proposal_id # id
            /\ \A p \in Committers :
                   (ctask[p].pc # "idle" /\ ctask[p].proposal_id = id) =>
                       /\ Returned(ctask[p])
                       /\ ~ctask[p].ok /\ ctask[p].reason = "unknown_proposal"
BlockedWithSignedToken ==
    \E p \in Committers :
        /\ ctask[p].pc = "done" /\ ctask[p].status = "blocked"
        /\ "block" \in Decisions(ctask[p].proposal_id)
        /\ ForOwnProposal(ctask[p])
        /\ now < ExpiryTick(ctask[p].token)
        /\ \E c \in commits : c.proposal_id = ctask[p].proposal_id /\ c.decision = "blocked"

\* ------------------------------------------------------------------ properties: interceptor
InvocationsOf(c) == {i \in 1..Len(invoked) : invoked[i].call = c}

\* C2: a tool registered with irreversible=true is invoked only after a
\* verify_commit for that tool and those arguments returned ok.
IrreversibleNeedsCommit ==
    \A i \in 1..Len(invoked) :
        registry_get(registry, invoked[i].tool_name).irreversible =>
            <<invoked[i].tool_name, tool_args_hash(invoked[i].tool_args)>> \in verified_ok

\* C4: when the policy decision is REVIEW or BLOCK the call never invokes
\* tool_fn and its result is the review template or the routed fallback.
NoToolOnReviewOrBlock ==
    \A c \in Calls :
        LET t == icall[c]
        IN t.policy_decision \in {"REVIEW", "BLOCK"} =>
               /\ InvocationsOf(c) = {}
               /\ t.pc \in {"finish", "done"}
               /\ t.policy_decision = "REVIEW" =>
                      t.result = review_response_template(t.tool_name, t.policy_reason)
               /\ t.policy_decision = "BLOCK" =>
                      t.result = route(routes, t.tool_name, t.tool_args, t.policy_reason).result
BlockedCallReturned ==
    \E c \in Calls :
        /\ icall[c].pc = "done" /\ icall[c].policy_decision = "BLOCK"
        /\ icall[c].fallback_type = "safe_tool"
        /\ icall[c].result = draft_fallback(icall[c].tool_args)
        /\ invoked = <<>>

\* C5: on the allow path with require_token, a failed verification of the
\* issued token invokes no tool_fn and raises nothing: the call returns the
\* routed fallback for the verifier's reason, recorded as fallback_reason.
FailedVerificationFallsBack ==
    \A c \in Calls :
        LET t == icall[c]
            routed == route(routes, t.tool_name, t.tool_args, t.verify_reason)
        IN t.exec_token_verified = "False" =>
               /\ t.policy_decision = "ALLOW" /\ t.require_token
               /\ InvocationsOf(c) = {}
               /\ t.pc \in {"finish", "done"}
               /\ t.verify_reason # "ok"
               /\ t.fallback_used /\ t.fallback_reason = t.verify_reason
               /\ t.result = routed.result /\ t.fallback_type = routed.type
ExpiredTokenFellBack ==
    \E c \in Calls :
        /\ icall[c].pc = "done" /\ icall[c].exec_token_verified = "False"
        /\ icall[c].verify_reason = "token_expired"
        /\ icall[c].fallback_reason = "token_expired"
        /\ icall[c].result.status = "blocked"

\* ------------------------------------------------------------------ properties: policy and tokens
\* C6: evaluate follows the decision matrix: HIGH blocks at or above
\* high_block_threshold (0.35), else reviews at or above high_review_threshold
\* (0.20), else allows, always requiring a token; MEDIUM reviews at or above
\* medium_review_threshold (0.50), else allows, without a token; LOW allows
\* without a token.
PolicyMatrix ==
    /\ DefaultPolicyConfig.high_block_threshold = Milli(350)
    /\ DefaultPolicyConfig.high_review_threshold = Milli(200)
    /\ DefaultPolicyConfig.medium_review_threshold = Milli(500)
    /\ pol.evaluated =>
           LET c == pol.tool_profile.criticality
               s == pol.score
               r == pol.result
           IN /\ c = "HIGH" =>
                     /\ r.require_token
                     /\ r.decision = IF s >= pol.cfg.high_block_threshold THEN "BLOCK"
                                     ELSE IF s >= pol.cfg.high_review_threshold THEN "REVIEW"
                                     ELSE "ALLOW"
              /\ c = "MEDIUM" =>
                     /\ ~r.require_token
                     /\ r.decision = IF s >= pol.cfg.medium_review_threshold THEN "REVIEW"
                                     ELSE "ALLOW"
              /\ c = "LOW" => ~r.require_token /\ r.decision = "ALLOW"
BlockAtThreshold ==
    /\ pol.evaluated /\ pol.cfg = DefaultPolicyConfig
    /\ pol.tool_profile.criticality = "HIGH" /\ pol.score = Milli(350)
    /\ pol.result.decision = "BLOCK" /\ pol.result.require_token

\* a verify call for an issued token with the tool and args it was issued for
MatchingVerify(e) ==
    /\ e.kind = "execution" /\ e.token \in exec_issued
    /\ e.tool_name = e.token.payload.tool_name
    /\ e.tool_args_hash = e.token.payload.tool_args_hash
\* the call was made at or after the token's expires_at
AtOrAfterExpiry(e) ==
    IF e.kind = "commit" THEN e.at >= ExpiryTick(e.token)
    ELSE e.at * MsPerTick >= e.token.payload.expires_at

\* C7: with replay protection on, of the verify calls on one verifier with a
\* validly issued token and its tool name and args hash, the first returns
\* valid, every later one made before the token expires returns
\* token_replay_detected, and at most one returns valid.
SingleUseToken ==
    (replay_protection /\ verifier_secret = ExecSecret) =>
        \A i \in 1..Len(vlog) :
            LET e == vlog[i]
                earlier == {j \in 1..(i - 1) : MatchingVerify(vlog[j]) /\ vlog[j].token = e.token}
            IN MatchingVerify(e) =>
                   /\ (earlier = {} /\ ~AtOrAfterExpiry(e)) => e.valid
                   /\ (earlier # {} /\ ~AtOrAfterExpiry(e)) =>
                          ~e.valid /\ e.reason = "token_replay_detected"
                   /\ e.valid => \A j \in earlier : ~vlog[j].valid
ReplayDetected ==
    /\ replay_protection
    /\ \E i, j \in 1..Len(vlog) :
           /\ i < j /\ MatchingVerify(vlog[i]) /\ MatchingVerify(vlog[j])
           /\ vlog[i].token = vlog[j].token
           /\ vlog[i].valid /\ vlog[j].reason = "token_replay_detected"

\* the token carries the signature the verifying side computes
CorrectlySigned(e) ==
    /\ e.token.decodable
    /\ e.token.sig = hmac_sha256(IF e.kind = "commit" THEN CommitSecret ELSE verifier_secret,
                                 e.token.payload)
ExpiredReason(e) == IF e.kind = "commit" THEN "expired" ELSE "token_expired"

\* C9: no token verifies at or after its expires_at; a correctly signed token
\* checked then is rejected with token_expired (execution) or expired
\* (commit); a token checked before its expires_at is not rejected for expiry.
ExpiryRespected ==
    \A i \in 1..Len(vlog) :
        LET e == vlog[i]
        IN /\ AtOrAfterExpiry(e) => ~e.valid
           /\ (AtOrAfterExpiry(e) /\ CorrectlySigned(e)) => e.reason = ExpiredReason(e)
           /\ ~AtOrAfterExpiry(e) => e.reason \notin {"expired", "token_expired"}
           /\ (e.token \in issued \cup exec_issued) =>
                  e.token.payload.expires_at =
                      e.token.payload.issued_at + (IF e.kind = "commit" THEN TtlSeconds ELSE ttl_ms)
BothKindsExpired ==
    \E i, j, k \in 1..Len(vlog) :
        /\ vlog[i].kind = "commit" /\ vlog[i].token \in issued /\ vlog[i].reason = "expired"
        /\ vlog[i].at = ExpiryTick(vlog[i].token)
        /\ vlog[j].kind = "execution" /\ vlog[j].token \in exec_issued
        /\ vlog[j].reason = "token_expired"
        /\ vlog[k].valid /\ vlog[k].at + 1 = vlog[i].at /\ vlog[k].token = vlog[i].token

\* ------------------------------------------------------------------ C11
\* no transfer_funds_commit call is between its first and last step
CommitQuiescent == \A p \in Committers : ctask[p].pc \in {"idle", "done"}
CommittedRows == {r \in commits : r.decision = "committed"}
\* how many times nonce_seen stored the nonce: once per accepted verification
NonceInsertions(nonce) ==
    Cardinality({p \in Committers : ctask[p].ok /\ ctask[p].token.payload.nonce = nonce})

\* C11: once every commit operation has ended (returned, failed or cancelled),
\* the executed side effects are as many as the commit rows with decision
\* committed, and each side effect has exactly one such row, for a proposal
\* with decision allow and a token whose nonce was recorded exactly once.
EffectsAudited ==
    CommitQuiescent =>
        /\ Len(effects) = Cardinality(CommittedRows)
        /\ \A i \in 1..Len(effects) :
            /\ Cardinality({r \in CommittedRows :
                                r.proposal_id = effects[i].proposal_id}) = 1
            /\ \E r \in proposals :
                   r.proposal_id = effects[i].proposal_id /\ r.decision = "allow"
            /\ NonceInsertions(effects[i].nonce) = 1

\* ------------------------------------------------------------------ C12
\* the nonce_seen calls of a backend for one nonce: ended, and still running
EndedCalls(calls, nonce) ==
    {k \in NonceCallers : calls[k].pc = "done" /\ calls[k].nonce = nonce}
RunningCalls(calls, nonce) ==
    {k \in NonceCallers : calls[k].pc \notin {"idle", "done"} /\ calls[k].nonce = nonce}
\* of the calls with one nonce that has not expired, none raised, at most one
\* returned False, and exactly one did once all of them have ended
CheckAndInsert(calls) ==
    \A token \in NonceTokens :
        now < token.expires_at =>
            LET ended == EndedCalls(calls, token.nonce)
                first == {k \in ended : calls[k].result = "False"}
            IN /\ \A k \in ended : calls[k].result \in {"True", "False"}
               /\ Cardinality(first) <= 1
               /\ (ended # {} /\ RunningCalls(calls, token.nonce) = {})
                      => Cardinality(first) = 1

\* C12: in both storage backends, of any concurrent nonce_seen calls with the
\* same fresh nonce exactly one returns False, every other returns True and
\* none raises.
NonceSeenAtomic == CheckAndInsert(ncall) /\ CheckAndInsert(pg.txn)
\* the in-memory backend alone
NonceSeenAtomicInMemory == CheckAndInsert(ncall)

\* ------------------------------------------------------------------ properties: trace finalization and the shadow lane
\* the call is over for its caller: it returned or an exception left it
CallEnded(c) == icall[c].pc \in {"done", "raised"}
\* the trace was ended, and exported when an exporter is set
Finalized(c) == icall[c].ended /\ (icfg.exporter => icall[c].exported)

\* C13: when tool_fn raises during intercept_tool_call, the trace has been
\* ended and exported by the time the exception reaches the caller.
ToolErrorFinalizesTrace ==
    \A c \in Calls : icall[c].raised_by = "tool_fn" => Finalized(c)

\* C14: an exception of exporter.export during finalization is not raised to
\* the caller: the call returns the result of the path it took.
ExportFailureNotRaised ==
    \A c \in Calls :
        CallEnded(c) /\ icall[c].ended =>
            /\ icall[c].raised_by # "exporter"
            /\ icall[c].pc = "done" /\ icall[c].returned = icall[c].result

\* C19: a call that is over has scheduled a shadow task iff its composite
\* risk level is high and shadow_for_high_risk is set, on the review, block
\* and allow paths alike, and only after its trace was ended and exported.
ShadowIffHigh ==
    \A c \in Calls :
        CallEnded(c) =>
            /\ icall[c].shadow_scheduled <=>
                   (icfg.shadow_for_high_risk /\ icall[c].composite_risk_level = "high")
            /\ icall[c].shadow_scheduled => Finalized(c)
\* the half of C19 about order, and about the calls that returned with the
\* task created
ShadowAfterFinalize ==
    \A c \in Calls :
        icall[c].shadow_scheduled =>
            /\ Finalized(c) /\ icall[c].pc = "done"
            /\ icfg.shadow_for_high_risk /\ icall[c].composite_risk_level = "high"

\* C20: a failure of the shadow lane, at scheduling or inside the task,
\* raises nothing in intercept_tool_call and leaves its result alone, and the
\* task only runs after the call returned.
ShadowFailureIsolated ==
    \A c \in Calls :
        icall[c].shadow \in {"not_scheduled", "failed", "finished"} =>
            /\ icall[c].pc = "done"
            /\ icall[c].raised_by = "None"
            /\ icall[c].returned = icall[c].result
            /\ icall[c].result # NoResult
\* the exporter raised inside the shadow task of a call that had returned the
\* tool's result
ShadowTaskFailedAfterReturn ==
    /\ icfg.exporter
    /\ \E c \in Calls :
           /\ icall[c].shadow = "failed" /\ icall[c].pc = "done"
           /\ icall[c].returned = [status |-> "executed"]

\* ------------------------------------------------------------------ C15
\* the commit rows written for the attempt of task p
RowsOf(p) == {r \in commits : r.commit_id = Uuid("commit", p)}

BlockedRowPerFailureDemo ==
    \A p \in Committers :
        (ctask[p].pc = "done" /\ ~ctask[p].ok /\ ctask[p].server = "DemoToolServer") =>
            /\ Cardinality(RowsOf(p)) = 1
            /\ \A r \in RowsOf(p) :
                   r.decision = "blocked" /\ r.verification_reason = ctask[p].reason

\* ------------------------------------------------------------------ properties: proposer
\* the commit tokens issued for a proposal
TokensFor(proposal_id) == {token \in issued : token.payload.proposal_id = proposal_id}

\* C16: a proposal is saved with decision allow iff its score is below
\* block_threshold, and with decision block otherwise; the proposer has issued
\* a token for it iff the decision is allow, a blocked proposal returns no
\* token, and at every moment each issued token is for a saved allow proposal.
TokenIffAllow ==
    /\ \A r \in proposals :
           r.decision = (IF r.composite_score < block_threshold THEN "allow" ELSE "block")
    /\ \A q \in Proposers :
           ptask[q].pc = "done" =>
               /\ Cardinality(get_proposal(ptask[q].proposal_id)) = 1
               /\ \A r \in get_proposal(ptask[q].proposal_id) :
                      /\ (ptask[q].status = "allowed") <=> (r.decision = "allow")
                      /\ (ptask[q].status = "blocked") <=> (r.decision = "block")
                      /\ (TokensFor(r.proposal_id) # {}) <=> (r.decision = "allow")
                      /\ (ptask[q].token_id # 0) <=> (r.decision = "allow")
    /\ \A token \in issued :
           \E r \in proposals :
               /\ r.proposal_id = token.payload.proposal_id
               /\ r.decision = "allow" /\ r.composite_score < block_threshold
\* a proposal whose score equals the threshold was blocked without a token,
\* next to an allowed one
BlockedAtThreshold ==
    \E q \in Proposers, a \in Proposers :
        /\ ptask[q].pc = "done" /\ ptask[q].status = "blocked"
        /\ ptask[q].score = block_threshold
        /\ TokensFor(ptask[q].proposal_id) = {}
        /\ ptask[a].pc = "done" /\ ptask[a].status = "allowed"
        /\ TokensFor(ptask[a].proposal_id) # {}

\* C17: a step of propose_transfer_funds leaves the ledger, the commit rows
\* and the nonce store unchanged; it adds at most one proposal row, removes
\* none, and changes the baseline only when the tool has none.
ProposeFrame ==
    [][ptask' # ptask =>
          /\ ledger' = ledger /\ commits' = commits /\ nonces' = nonces
          /\ effects' = effects
          /\ proposals \subseteq proposals'
          /\ Cardinality(proposals' \ proposals) <= 1
          /\ baseline' # baseline => baseline[TransferTool] = NoneHash]_vars
\* a second proposal was made and allowed on a server that has executed a
\* transfer and holds commit rows and a nonce
ProposedAfterCommit ==
    /\ ptask[2].pc = "done" /\ ptask[2].status = "allowed"
    /\ Cardinality(proposals) = 2
    /\ Len(ledger) = 1 /\ commits # {} /\ nonces # {}

\* C18: the first proposal sets the baseline to its prompt hash and has no
\* drift signal; every later proposal has prompt_drift 1 iff its normalized
\* prompt differs from the first one's, else 0, and the baseline stays the
\* first proposal's hash.
DriftBaseline ==
    /\ (baseline[TransferTool] = NoneHash) <=> (ptask[1].pc \in {"idle", "set_baseline"})
    /\ baseline[TransferTool] # NoneHash =>
           baseline[TransferTool] = sha256_hex(normalize_prompt(ptask[1].prompt))
    /\ ptask[1].pc = "done" => ptask[1].drift = NoneNum
    /\ \A q \in Proposers \ {1} :
           ptask[q].pc = "done" =>
               ptask[q].drift =
                   (IF normalize_prompt(ptask[q].prompt) = normalize_prompt(ptask[1].prompt)
                    THEN 0 ELSE Scale)
\* a later prompt that differs from the first only in case and whitespace has
\* drift 0
SamePromptNoDrift ==
    \E q \in Proposers \ {1} :
        /\ ptask[q].pc = "done" /\ ptask[q].drift = 0
        /\ ptask[q].prompt # ptask[1].prompt

\* ------------------------------------------------------------------ properties: fallback routing
\* C21: on a BLOCK decision the call invokes no tool_fn and its result, which
\* is what it returns, is the result of the handler registered for the tool
\* with fallback type safe_tool, or without a handler the block template
\* carrying the tool and the policy reason with fallback type template.
BlockRoutesToFallback ==
    \A c \in Calls :
        LET t == icall[c]
        IN t.policy_decision = "BLOCK" =>
               /\ InvocationsOf(c) = {}
               /\ t.fallback_used /\ t.fallback_reason = t.policy_reason
               /\ t.tool_name \in routes =>
                      /\ t.result = draft_fallback(t.tool_args)
                      /\ t.fallback_type = "safe_tool"
               /\ t.tool_name \notin routes =>
                      /\ t.result = [status |-> "blocked", tool |-> t.tool_name,
                                     reason |-> t.policy_reason,
                                     message |-> "Execution blocked by MCP Observatory policy."]
                      /\ t.fallback_type = "template"
               /\ t.pc = "done" => t.returned = t.result
               /\ t.pc = "raised" => t.raised_by = "exporter"
\* a blocked call of a tool without a handler returned the template
BlockedCallReturnedTemplate ==
    \E c \in Calls :
        /\ icall[c].pc = "done" /\ icall[c].policy_decision = "BLOCK"
        /\ routes = {}
        /\ icall[c].fallback_type = "template"
        /\ icall[c].returned = block_response_template(icall[c].tool_name, icall[c].policy_reason)
        /\ invoked = <<>>

\* C22: on a REVIEW decision the fallback router is not called, handler or
\* not: the call invokes no tool_fn and its result, which is what it returns,
\* is the review_required template carrying the tool and the policy reason,
\* with fallback type human_review.
ReviewBypassesRouter ==
    \A c \in Calls :
        LET t == icall[c]
        IN t.policy_decision = "REVIEW" =>
               /\ t.router_calls = 0
               /\ InvocationsOf(c) = {}
               /\ t.fallback_used /\ t.fallback_type = "human_review"
               /\ t.fallback_reason = t.policy_reason
               /\ t.result = [status |-> "review_required", tool |-> t.tool_name,
                              reason |-> t.policy_reason,
                              message |-> "Execution requires human review before proceeding."]
               /\ t.pc = "done" => t.returned = t.result
\* a call under review of a tool that has a handler returned the review
\* template
ReviewedDespiteHandler ==
    \E c \in Calls :
        /\ icall[c].pc = "done" /\ icall[c].policy_decision = "REVIEW"
        /\ icall[c].tool_name \in routes
        /\ icall[c].returned.status = "review_required"
        /\ icall[c].router_calls = 0

\* ------------------------------------------------------------------ properties: tool registry
\* C23: after any sequence of register calls, get(name) returns the profile
\* registered last under that name; for a name never registered it returns
\* the default profile (LOW, limited, not irreversible, not regulatory, no
\* risk tier) and the registry gains no entry.
RegistryLastWins ==
    /\ {pr.name : pr \in registry} = {n \in RegistryNames : registered[n] # NoRegistration}
    /\ got # NoGet =>
           got.profile =
               IF got.after # NoRegistration
               THEN got.after.last
               ELSE [name |-> got.tool_name, criticality |-> "LOW",
                     blast_radius |-> "limited", irreversible |-> FALSE,
                     regulatory |-> FALSE, risk_tier |-> "None"]
    /\ \A n \in RegistryNames :
           registered[n] # NoRegistration => registry_get(registry, n) = registered[n].last
\* a get that followed two different registrations of its name, with a name
\* never registered still absent from the registry
GotLastOfTwoRegistrations ==
    /\ got.tool_name = "cancel_shipment"
    /\ got.after.first # got.after.last /\ got.profile = got.after.last
    /\ registered["initiate_wire_transfer"] = NoRegistration
    /\ registry = {registered["cancel_shipment"].last}
\* a get of a name never registered returned the default and added nothing
GotDefaultOfUnregistered ==
    /\ got.tool_name = "initiate_wire_transfer" /\ got.after = NoRegistration
    /\ got.profile.criticality = "LOW" /\ ~got.profile.irreversible
    /\ registry = {}

\* ------------------------------------------------------------------ properties: tiered execution
\* the MCP call was made and its span measured against the tier
Evaluated == engine.mcp_span # NoSpan
\* the hallucination risk of the MCP span, 1.0 when the span has none
SpanRisk ==
    IF engine.mcp_span.hallucination_risk_score = NoneNum
    THEN Scale ELSE engine.mcp_span.hallucination_risk_score
\* the explicit confidence, else 1 - hallucination risk; NoneNum when the
\* call has neither
ClaimedConfidence ==
    IF engine.input.confidence # NoneNum THEN engine.input.confidence
    ELSE IF engine.mcp_span.hallucination_risk_score # NoneNum
    THEN Scale - engine.mcp_span.hallucination_risk_score
    ELSE NoneNum
ThresholdsPass ==
    /\ ClaimedConfidence # NoneNum
    /\ ClaimedConfidence >= engine.tier.min_confidence
    /\ SpanRisk <= engine.tier.max_hallucination_risk
McpResult == IF engine.input.mcp = "mcp_response" THEN "World" ELSE "Called"

\* C24: execute accepts the MCP response (accepted, response_source mcp, no
\* fallback, response equal to the MCP result) iff the effective confidence
\* (explicit, else 1 - hallucination risk) is at least tier.min_confidence
\* and the hallucination risk is at most tier.max_hallucination_risk; the
\* cost only sets the cost_breached flag.
ThresholdsDecideAcceptance ==
    Evaluated =>
        /\ engine.decision.accepted <=> ThresholdsPass
        /\ engine.decision.cost_breached <=>
               (engine.input.cost_usd > engine.tier.max_cost_usd)
        /\ engine.decision.accepted =>
               /\ engine.pc = "done" /\ engine.response = McpResult
               /\ engine.decision.response_source = "mcp"
               /\ ~engine.decision.fallback_used
               /\ ~engine.decision.confidence_breached
               /\ ~engine.decision.hallucination_breached
               /\ engine.fallback_span = NoSpan
\* a response over the cost budget of its tier was accepted on a confidence
\* inferred from the hallucination risk, with a fallback at hand
AcceptedOverBudget ==
    /\ engine.pc = "done" /\ engine.decision.accepted
    /\ engine.decision.cost_breached
    /\ engine.input.confidence = NoneNum
    /\ engine.input.deterministic_fallback = "returns_text"
    /\ engine.response = "World" /\ engine.fallback_span = NoSpan

\* C25: when the confidence or the hallucination threshold is breached and a
\* deterministic fallback is supplied, execute returns the fallback's
\* response with accepted false, response_source deterministic_fallback,
\* fallback_used true, the breach flags of the MCP span and a recorded
\* fallback span; without a fallback it returns response None with
\* response_source none and fallback_used false.
BreachReturnsFallback ==
    Evaluated /\ ~ThresholdsPass /\ engine.pc # "fallback" =>
        /\ engine.pc = "done"
        /\ ~engine.decision.accepted
        /\ engine.decision.confidence_breached <=>
               (ClaimedConfidence = NoneNum \/ ClaimedConfidence < engine.tier.min_confidence)
        /\ engine.decision.hallucination_breached <=>
               (SpanRisk > engine.tier.max_hallucination_risk)
        /\ engine.input.deterministic_fallback = "None" =>
               /\ engine.response = NoResponse
               /\ engine.decision.response_source = "none"
               /\ ~engine.decision.fallback_used
               /\ engine.fallback_span = NoSpan
        /\ engine.input.deterministic_fallback # "None" =>
               /\ engine.response =
                      IF engine.input.deterministic_fallback = "returns_text"
                      THEN "deterministic" ELSE NoResponse
               /\ engine.decision.response_source = "deterministic_fallback"
               /\ engine.decision.fallback_used
               /\ engine.fallback_span # NoSpan /\ engine.fallback_span.ended
               /\ engine.fallback_span.fallback_used
\* the same for the fallbacks that return a response other than None
BreachReturnsFallbackText ==
    engine.input.tier_name # "" /\ engine.input.deterministic_fallback # "returns_None"
        => BreachReturnsFallback
\* a low explicit confidence was answered by the fallback's text
FallbackAnsweredLowConfidence ==
    /\ engine.pc = "done" /\ engine.decision.response_source = "deterministic_fallback"
    /\ engine.decision.confidence_breached /\ ~engine.decision.hallucination_breached
    /\ engine.response = "deterministic" /\ engine.fallback_span.fallback_type = "deterministic"

SameItems ==
    \E d \in (IF hashed.fn = "args_hash" THEN CallBundles ELSE TransferBundles) :
        hashed.a \in Orderings(d) /\ hashed.b \in Orderings(d)

\* C27: two argument bundles that differ only in the order of their keys, at
\* the top level or in a nested dict, have the same tool_args_hash and the
\* same args_hash.
ArgsHashStable ==
    hashed # NoHashes =>
        (SameItems => hashed.hash_a = hashed.hash_b)
\* the keys of both levels were reordered and the hashes agree, as in
\* test_args_hash_stability
ReorderedBothLevels ==
    /\ hashed # NoHashes /\ hashed.fn = "tool_args_hash"
    /\ hashed.a = << <<"amount", 100>>, <<"to", "acct_123">>,
                     <<"meta", << <<"x", 1>>, <<"y", 2>> >> >> >>
    /\ hashed.b = << <<"to", "acct_123">>,
                     <<"meta", << <<"y", 2>>, <<"x", 1>> >> >>, <<"amount", 100>> >>
    /\ hashed.hash_a = hashed.hash_b
\* args_hash of two dicts whose texts differ after normalization differs
DifferentArgsDifferentHash ==
    /\ hashed # NoHashes /\ hashed.fn = "args_hash"
    /\ ~SameItems /\ hashed.hash_a # hashed.hash_b

\* ------------------------------------------------------------------ properties: order of the stages of a call
StagesToPolicy == <<"Started", "RiskComputed", "PolicyEvaluated">>
\* the orders a finished call can show; on the allow path with a token the
\* tool is invoked after a valid verification, and not at all after a failed
\* one
CompleteTraces ==
    { StagesToPolicy \o <<"ReviewPath", "Finalized">>,
      StagesToPolicy \o <<"BlockPath", "Finalized">>,
      StagesToPolicy \o <<"AllowPath", "TokenIssued", "TokenVerified", "ToolInvoked", "Finalized">>,
      StagesToPolicy \o <<"AllowPath", "TokenIssued", "TokenVerified", "Finalized">>,
      StagesToPolicy \o <<"AllowPath", "ToolInvoked", "Finalized">> }
IsPrefix(s, t) == Len(s) <= Len(t) /\ \A i \in 1..Len(s) : s[i] = t[i]
Stages(c) == {icall[c].trace[i] : i \in 1..Len(icall[c].trace)}
\* the stages a call went through so far are in order, on the path of its
\* decision, and with the token stages its policy asks for
TraceWellOrdered(c) ==
    LET t == icall[c]
    IN t.pc # "idle" =>
           /\ \E full \in CompleteTraces : IsPrefix(t.trace, full)
           /\ IsPrefix(StagesToPolicy, t.trace)
           /\ Cardinality(Stages(c) \cap {"ReviewPath", "BlockPath", "AllowPath"}) = 1
           /\ "ReviewPath" \in Stages(c) <=> t.policy_decision = "REVIEW"
           /\ "BlockPath" \in Stages(c) <=> t.policy_decision = "BLOCK"
           /\ "AllowPath" \in Stages(c) <=> t.policy_decision = "ALLOW"
           /\ "TokenIssued" \in Stages(c) <=> (t.policy_decision = "ALLOW" /\ t.require_token)
           /\ "TokenIssued" \in Stages(c) <=> t.token # GarbageExecToken
           /\ "TokenVerified" \in Stages(c) <=> t.exec_token_verified # "None"
           /\ ("ToolInvoked" \in Stages(c) /\ t.require_token) => t.exec_token_verified = "True"
           /\ "ToolInvoked" \in Stages(c) <=> InvocationsOf(c) # {}

\* C28: every intercept_tool_call goes through Started, RiskComputed,
\* PolicyEvaluated, exactly one of ReviewPath, BlockPath and AllowPath, and
\* then Finalized; with require_token the allow path is TokenIssued,
\* TokenVerified, ToolInvoked, without it no token is issued or verified and
\* the tool is invoked directly; no token is issued on REVIEW or BLOCK.
StateOrder ==
    \A c \in Calls :
        /\ TraceWellOrdered(c)
        /\ CallEnded(c) => icall[c].trace \in CompleteTraces
\* the same for the calls that returned
StateOrderOfReturned ==
    \A c \in Calls :
        /\ TraceWellOrdered(c)
        /\ icall[c].pc = "done" => icall[c].trace \in CompleteTraces
\* a call without token requirement invoked the tool directly and returned
DirectInvocationReturned ==
    \E c \in Calls :
        /\ icall[c].pc = "done" /\ ~icall[c].require_token
        /\ icall[c].trace = StagesToPolicy \o <<"AllowPath", "ToolInvoked", "Finalized">>
        /\ icall[c].exec_token_verified = "None"

\* ------------------------------------------------------------------ properties: order of the checks
\* the reason verify_commit owes a call, from what it was given: the first
\* check that fails, in the order proposal, signature, expiry, proposal of
\* the payload, tool and args, nonce
FirstFailingCheck(t) ==
    IF t.proposal_seen # "allow" THEN "unknown_proposal"
    ELSE IF ~t.token.decodable \/ t.token.sig # hmac_sha256(CommitSecret, t.token.payload)
    THEN "bad_signature"
    ELSE IF t.token_fresh = "False" THEN "expired"
    ELSE IF t.token.payload.proposal_id # t.proposal_id THEN "unknown_proposal"
    ELSE IF ~ToolMatches(t) \/ ~ArgsMatch(t) THEN "args_hash_mismatch"
    ELSE IF t.nonce_replay = "True" THEN "nonce_replay"
    ELSE "ok"

\* C29: verify_commit checks, in this order, that the proposal exists with
\* decision allow (else unknown_proposal), the token's signature and expiry
\* (else bad_signature, expired), that the payload names the proposal (else
\* unknown_proposal), the tool and the args hash (else args_hash_mismatch)
\* and the nonce (else nonce_replay), and returns the reason of the first
\* check that fails; a token of one allowed proposal does not commit another.
VerifyCommitCheckOrder ==
    \A p \in Committers :
        LET t == ctask[p]
        IN Returned(t) =>
               /\ t.reason = FirstFailingCheck(t)
               /\ t.ok <=> t.reason = "ok"
               /\ t.proposal_seen # "allow" => t.token_fresh = "unchecked"
               /\ t.reason \in {"unknown_proposal", "bad_signature", "expired",
                                "args_hash_mismatch"} => t.nonce_replay = "unchecked"
               /\ t.ok => t.token.payload.proposal_id = t.proposal_id
\* the unexpired token of one allowed proposal was presented, with the tool
\* and the args it was issued for, for another allowed proposal
CrossProposalTokenRejected ==
    \E p \in Committers :
        LET t == ctask[p]
        IN /\ t.pc = "done" /\ t.proposal_seen = "allow"
           /\ t.token \in issued /\ t.token_fresh = "True"
           /\ t.token.payload.proposal_id # t.proposal_id
           /\ Decisions(t.token.payload.proposal_id) = {"allow"}
           /\ ToolMatches(t) /\ ArgsMatch(t)
           /\ ~t.ok /\ t.reason = "unknown_proposal"
           /\ \A i \in 1..Len(effects) : effects[i].task # p

\* the first of the seven steps of the verification algorithm that entry e
\* of vlog fails, 0 when it fails none: 1 decode, 2 signature, 3 payload
\* parse, 4 expiry, 5 tool name, 6 args hash, 7 replay. CommitTokenManager
\* is given no tool name and no args hash and keeps no replay set.
FirstFailingStep(i) ==
    LET e == vlog[i]
        payload == e.token.payload
    IN IF ~e.token.decodable THEN 1
       ELSE IF ~CorrectlySigned(e) THEN 2
       ELSE IF payload.tool_name = NotJsonText THEN 3
       ELSE IF AtOrAfterExpiry(e) THEN 4
       ELSE IF e.kind = "commit" THEN 0
       ELSE IF payload.tool_name # e.tool_name THEN 5
       ELSE IF payload.tool_args_hash # e.tool_args_hash THEN 6
       ELSE IF /\ replay_protection /\ payload.token_id # 0
               /\ \E j \in 1..(i - 1) :
                      /\ vlog[j].kind = "execution" /\ vlog[j].valid
                      /\ vlog[j].token.payload.token_id = payload.token_id
       THEN 7
       ELSE 0
ExecutionStepReason ==
    << "token_decode_failed", "invalid_signature", "invalid_payload_json", "token_expired",
       "tool_name_mismatch", "tool_args_hash_mismatch", "token_replay_detected" >>
CommitStepReason == << "bad_signature", "bad_signature", "bad_signature", "expired" >>
StepReason(kind) == IF kind = "commit" THEN CommitStepReason ELSE ExecutionStepReason

InReplaySet(e) == \E entry \in seen : entry.token_id = e.token.payload.token_id
\* a verify call that returned valid for a token that has not expired yet
VerifiedWithinTtl(e) ==
    /\ e.kind = "execution" /\ e.valid
    /\ NowMs < e.token.payload.expires_at
\* a nonce_seen call that stored its nonce, which has not expired yet
StoredWithinTtl(c) == c.pc = "done" /\ c.result = "False" /\ now < c.expires_at

\* C31: the id of every token that verified and has not expired is in the
\* replay set (when the verifier keeps one), and every nonce that nonce_seen
\* stored and that has not expired is in the nonce table; the entries either
\* one holds beyond those are of what has not expired or was stored after
\* its expiry.
EvictionKeepsLiveEntries ==
    /\ replay_protection =>
           \A i \in 1..Len(vlog) : VerifiedWithinTtl(vlog[i]) => InReplaySet(vlog[i])
    /\ \A k \in DOMAIN ncall :
           StoredWithinTtl(ncall[k]) => \E r \in nonces : r.nonce = ncall[k].nonce
\* one token's id was evicted at its expiry by a later verify call that
\* found the other token's id and reported the replay, and one nonce was
\* purged at its expiry by a later nonce_seen call that found the other
EvictedExpiredKeptLive ==
    /\ \E i, j, k \in 1..Len(vlog) :
           /\ i < k /\ j < k
           /\ vlog[i].valid /\ vlog[j].valid /\ vlog[i].token # vlog[j].token
           /\ ~InReplaySet(vlog[i]) /\ InReplaySet(vlog[j])
           /\ vlog[k].token = vlog[j].token /\ vlog[k].reason = "token_replay_detected"
           /\ VerifiedWithinTtl(vlog[j])
    /\ \E a, b, c \in DOMAIN ncall :
           /\ ncall[a].pc = "done" /\ ncall[a].result = "False"
           /\ ncall[a].expires_at <= now
           /\ ~\E r \in nonces : r.nonce = ncall[a].nonce
           /\ StoredWithinTtl(ncall[b])
           /\ ncall[c].pc = "done" /\ ncall[c].result = "True"
           /\ ncall[c].nonce = ncall[b].nonce

\* how many times the call has made event ev
Count(events, ev) == Cardinality({i \in 1..Len(events) : events[i] = ev})
ModelCallLeft == mcall.pc \in {"returned", "raised"}

\* C32: on every path of a call, the exporter's and the callable's failures
\* included, end_span is called at most once on the span and the span is
\* handed to the exporter at most once; intercept_tool_call has one
\* end_span/export site, which a call passes at most once.
FinalizedOnce ==
    /\ Count(mcall.events, "end_span") <= 1
    /\ Count(mcall.events, "export") <= 1
\* the part of C32 that holds: a call the exporter does not fail ends its
\* span once and exports it once
FinalizedOnceUnlessExportRaises ==
    (ModelCallLeft /\ mcall.error # "export_error" /\ mcall.pending # "export_error") =>
        FinalizedOnce
\* a call whose first export raised: the except clause ended and exported
\* the span again
FinalizedTwice ==
    /\ mcall.pc = "raised" /\ mcall.call = "returns"
    /\ mcall.events = <<"start_span", "call", "end_span", "export", "end_span", "export">>

\* C40: a call whose wrapped callable raised has ended its span, exported it
\* (when there is an exporter) and left with the callable's exception; a
\* call given neither call nor response has left with ValueError without
\* starting, ending or exporting a span.
CallErrorReRaised ==
    /\ (ModelCallLeft /\ mcall.call \in {"raises", "cancelled"}) =>
           /\ mcall.pc = "raised"
           /\ mcall.events = EndSpanThenExport(<<"start_span", "call">>, mcall.exporter)
           /\ mcall.error \in {"call_error", "CancelledError"}
    /\ (ModelCallLeft /\ mcall.call = "None" /\ mcall.response = "None") =>
           /\ mcall.pc = "raised" /\ mcall.error = "ValueError"
           /\ mcall.events = <<>>
\* the part of C40 that holds: the same, for a callable that raises an
\* Exception while the exporter does not
CallExceptionReRaised ==
    /\ (ModelCallLeft /\ mcall.call = "raises" /\ mcall.error # "export_error") =>
           /\ mcall.pc = "raised"
           /\ mcall.events = EndSpanThenExport(<<"start_span", "call">>, mcall.exporter)
           /\ mcall.error = "call_error"
    /\ (ModelCallLeft /\ mcall.call = "None" /\ mcall.response = "None") =>
           /\ mcall.pc = "raised" /\ mcall.error = "ValueError"
           /\ mcall.events = <<>>
\* the callable raised and the caller got the exporter's exception
CallErrorMasked ==
    /\ mcall.pc = "raised" /\ mcall.call = "raises"
    /\ mcall.error = "export_error"

\* the components that are present, and sums over them
PresentKeys(components) == {k \in DOMAIN components : components[k] # NoneNum}
WeightOf(weights, key) == weights[CHOOSE i \in 1..Len(weights) : weights[i].key = key].weight
InUnitRange(x) == IF x < 0 THEN 0 ELSE IF x > Scale THEN Scale ELSE x
RECURSIVE TotalOver(_, _, _, _)
TotalOver(keys, components, weights, weighted) ==
    IF keys = {} THEN 0
    ELSE LET k == CHOOSE key \in keys : TRUE
         IN WeightOf(weights, k) * (IF weighted THEN InUnitRange(components[k]) ELSE 1)
            + TotalOver(keys \ {k}, components, weights, weighted)

\* C33: for every subset of present components, the composite score is the
\* mean of the present components (each brought into [0,1]) weighted by
\* their weights over the sum of the weights present, to the last digit
\* kept; it lies in [0,1]; with no component present it is 0, with level
\* low; the level of the risk score is low under 0.20, medium under 0.35,
\* high otherwise.
CompositeIsWeightedMean ==
    scored # NoScore =>
        LET present == PresentKeys(scored.components)
            total_weight == TotalOver(present, scored.components, scored.weights, FALSE)
            weighted_sum == TotalOver(present, scored.components, scored.weights, TRUE)
        IN /\ 0 <= scored.score /\ scored.score <= Scale
           /\ present = {} => scored.score = 0
           /\ present # {} =>
                  /\ scored.score * total_weight <= weighted_sum
                  /\ weighted_sum < (scored.score + 1) * total_weight
           /\ scored.fn = "composite_risk_score" =>
                  scored.level = IF scored.score < Milli(200) THEN "low"
                                 ELSE IF scored.score < Milli(350) THEN "medium"
                                 ELSE "high"
\* grounding at 1 and verifier at 0 with the other four absent: 0.30 / 0.55,
\* level high, where the mean over all six weights would be medium
RenormalizedOverSubset ==
    /\ scored # NoScore /\ scored.fn = "composite_risk_score"
    /\ PresentKeys(scored.components) = {"grounding_risk", "verifier_risk"}
    /\ scored.components["grounding_risk"] = Scale
    /\ scored.components["verifier_risk"] = 0
    /\ scored.score = (300 * Scale) \div 550
    /\ scored.level = "high"

\* a verify_commit call that returned a failure other than a replay
FailedNotReplay(t) == Returned(t) /\ ~t.ok /\ t.reason # "nonce_replay"
\* a TokenVerifier.verify call that returned a failure other than a replay
FailedExecNotReplay(e) ==
    e.kind = "execution" /\ ~e.valid /\ e.reason # "token_replay_detected"
\* the verify_commit calls that handed the nonce of their token to nonce_seen
NonceHandedOver(nonce) ==
    {p \in Committers : /\ ctask[p].nonce_replay # "unchecked"
                        /\ ctask[p].token.payload.nonce = nonce}

\* C34: every entry of the replay set is the id of a token that verified,
\* and every row of the nonce table is the nonce of a token whose
\* verify_commit call passed every check before the nonce check: a call that
\* fails for another reason than a replay stores nothing. Hence a verify
\* call reports a replay only when a call with the same token succeeded
\* before it, and a verify_commit call only when another call handed the
\* same nonce over.
FailedVerifyConsumesNothing ==
    /\ \A entry \in seen :
           \E i \in 1..Len(vlog) :
               vlog[i].valid /\ vlog[i].token.payload.token_id = entry.token_id
    /\ \A i \in 1..Len(vlog) :
           vlog[i].reason = "token_replay_detected" =>
               \E j \in 1..(i - 1) : vlog[j].valid /\ vlog[j].token = vlog[i].token
    /\ \A r \in nonces : NonceHandedOver(r.nonce) # {}
    /\ \A p \in Committers :
           /\ FailedNotReplay(ctask[p]) => ctask[p].nonce_replay = "unchecked"
           /\ (Returned(ctask[p]) /\ ctask[p].reason = "nonce_replay") =>
                  NonceHandedOver(ctask[p].token.payload.nonce) \ {p} # {}
\* an issued execution token verified after two failed attempts with it
VerifiedAfterFailedAttempts ==
    /\ Len(vlog) = 3
    /\ vlog[1].token \in exec_issued /\ vlog[2].token = vlog[1].token
    /\ vlog[3].token = vlog[1].token
    /\ vlog[1].reason = "tool_name_mismatch" /\ vlog[2].reason = "tool_args_hash_mismatch"
    /\ vlog[3].valid
\* a commit token accepted after a failed attempt with it
CommittedAfterFailedAttempt ==
    \E p, q \in Committers :
        /\ p # q /\ ctask[p].token = ctask[q].token /\ ctask[p].token \in issued
        /\ FailedNotReplay(ctask[p]) /\ ctask[p].reason = "args_hash_mismatch"
        /\ p \in ctask[q].after
        /\ ctask[q].ok /\ Returned(ctask[q])

\* the proposals that have called set_baseline_prompt_hash
BaselineWriters ==
    {q \in Proposers : ptask[q].baseline = NoneHash /\ ptask[q].pc \in {"save", "issue", "done"}}

\* C35: under any interleaving of proposals for one tool, at most one of
\* them writes the tool's baseline prompt hash, and once written the
\* baseline is the hash of that proposal's prompt.
BaselineWrittenOnce ==
    /\ Cardinality(BaselineWriters) <= 1
    /\ \A q \in BaselineWriters : baseline[TransferTool] = ptask[q].p_hash
\* two proposals with different prompts both read no baseline; the second
\* write replaced the first
BaselineOverwritten ==
    \E q, r \in BaselineWriters :
        /\ q # r /\ ptask[q].p_hash # ptask[r].p_hash
        /\ baseline[TransferTool] = ptask[r].p_hash
        /\ ptask[q].pc = "done" /\ ptask[r].pc = "done"

\* call c is for a tool name the registry holds no profile for
Unregistered(c) ==
    icall[c].pc # "idle" /\ ~\E pr \in registry : pr.name = icall[c].tool_name
InTrace(c, stage) == \E i \in 1..Len(icall[c].trace) : icall[c].trace[i] = stage
ToolCalled(c) == \E i \in 1..Len(invoked) : invoked[i].call = c

\* C36: a call for a tool name without a registered profile is allowed
\* whatever its composite risk score, issues and verifies no token, takes no
\* fallback, and has invoked tool_fn once it is past the invocation.
UnregisteredToolRuns ==
    \A c \in Calls :
        Unregistered(c) =>
            LET t == icall[c]
            IN /\ t.policy_decision = "ALLOW" /\ ~t.require_token
               /\ t.exec_token_id = 0 /\ t.exec_token_verified = "None"
               /\ ~InTrace(c, "TokenIssued") /\ ~InTrace(c, "TokenVerified")
               /\ ~t.fallback_used /\ t.router_calls = 0
               /\ t.pc = "invoke" \/ ToolCalled(c)
               /\ t.pc = "done" => t.returned = [status |-> "executed"]
\* a call for an unregistered tool whose risk level is high has returned
\* what tool_fn returned
UnregisteredHighRiskRan ==
    \E c \in Calls :
        /\ Unregistered(c) /\ icall[c].composite_risk_level = "high"
        /\ icall[c].pc = "done" /\ ToolCalled(c)
        /\ icall[c].returned = [status |-> "executed"]

\* C37: of every call that has been finalized and has returned, the trace's
\* fallback_used is true iff tool_fn was not invoked in the call, and
\* fallback_reason is set iff fallback_used is true.
FallbackMarksUninvoked ==
    \A c \in Calls :
        LET t == icall[c]
        IN (t.pc = "done" /\ t.ended) =>
               /\ t.fallback_used <=> ~ToolCalled(c)
               /\ t.fallback_reason # "None" <=> t.fallback_used
\* a call whose token did not verify returned the fallback: tool_fn not
\* invoked, fallback_used set, the verifier's reason as fallback_reason
FailedTokenMarkedFallback ==
    \E c \in Calls :
        /\ icall[c].pc = "done" /\ icall[c].ended
        /\ icall[c].exec_token_verified = "False"
        /\ icall[c].fallback_used /\ ~ToolCalled(c)
        /\ icall[c].fallback_reason = icall[c].verify_reason
        /\ icall[c].fallback_reason # "None"

\* ALLOW < REVIEW < BLOCK and LOW < MEDIUM < HIGH
Restrictiveness(decision) ==
    CASE decision = "ALLOW" -> 1 [] decision = "REVIEW" -> 2 [] decision = "BLOCK" -> 3
CriticalityRank(c) == CASE c = "LOW" -> 1 [] c = "MEDIUM" -> 2 [] c = "HIGH" -> 3

\* C38: the decision evaluate returned for a score is no more restrictive
\* than the one it returns, for the same profile and thresholds, for any
\* higher score; under the default thresholds it is no more restrictive than
\* the one it returns for the same score and any higher criticality.
DecisionMonotone ==
    pol.evaluated =>
        /\ \A s \in PolicyScores :
               s >= pol.score =>
                   Restrictiveness(evaluate(pol.cfg, pol.tool_profile, s).decision)
                       >= Restrictiveness(pol.result.decision)
        /\ pol.cfg = DefaultPolicyConfig =>
               \A c \in Criticalities :
                   CriticalityRank(c) >= CriticalityRank(pol.tool_profile.criticality) =>
                       Restrictiveness(
                           evaluate(pol.cfg, [pol.tool_profile EXCEPT !.criticality = c],
                                    pol.score).decision)
                           >= Restrictiveness(pol.result.decision)
\* thresholds with review above block: a HIGH tool between the two is
\* blocked, and stays blocked at and above the review threshold
BlockedBelowReviewThreshold ==
    /\ pol.evaluated /\ pol.tool_profile.criticality = "HIGH"
    /\ pol.cfg.high_block_threshold = Milli(200)
    /\ pol.cfg.high_review_threshold = Milli(500)
    /\ pol.score = Milli(349) /\ pol.result.decision = "BLOCK"
    /\ evaluate(pol.cfg, pol.tool_profile, Milli(500)).decision = "BLOCK"

HighCriticality(c) ==
    /\ icall[c].pc # "idle"
    /\ registry_get(registry, icall[c].tool_name).criticality = "HIGH"
\* C39: under the default thresholds a call to a HIGH-criticality tool is
\* decided BLOCK iff its composite risk level is high, REVIEW iff medium and
\* ALLOW iff low, and, with shadow_for_high_risk set, such a call that is
\* over has scheduled a shadow task iff policy blocked it.
ShadowIffBlocked ==
    \A c \in Calls :
        HighCriticality(c) =>
            /\ icall[c].policy_decision = "BLOCK" <=> icall[c].composite_risk_level = "high"
            /\ icall[c].policy_decision = "REVIEW" <=> icall[c].composite_risk_level = "medium"
            /\ icall[c].policy_decision = "ALLOW" <=> icall[c].composite_risk_level = "low"
            /\ (icfg.shadow_for_high_risk /\ CallEnded(c)) =>
                   (icall[c].shadow_scheduled <=> icall[c].policy_decision = "BLOCK")
\* the half of C39 about the decision and the level, and the shadow tasks
\* that were created
DecisionAgreesWithLevel ==
    \A c \in Calls :
        HighCriticality(c) =>
            /\ icall[c].policy_decision = "BLOCK" <=> icall[c].composite_risk_level = "high"
            /\ icall[c].policy_decision = "REVIEW" <=> icall[c].composite_risk_level = "medium"
            /\ icall[c].policy_decision = "ALLOW" <=> icall[c].composite_risk_level = "low"
            /\ icall[c].shadow_scheduled => icall[c].policy_decision = "BLOCK"

====
